---- MODULE Spec2Model ----
(***************************************************************************)
(* A model of the fulfil_client library: the model proxy's paginated       *)
(* search (client.py), the response classification (client.py,             *)
(* exceptions.py), the context sent with remote calls (client.py), the     *)
(* change-tracking dictionary, the query builder and the active-record     *)
(* layer with its cache (model.py).                                        *)
(*                                                                         *)
(* Each part of the library has its own variables and its own              *)
(* specification (SpecPaging, SpecResponse, ...); the variables of the     *)
(* other parts stay at their initial value under it.                       *)
(***************************************************************************)
EXTENDS Integers, Sequences, FiniteSets, TLC

(***************************************************************************)
(* Bounds of the model.                                                    *)
(***************************************************************************)
\* rows of the server's collection that match the searched domain
MaxRows == 5
\* largest batch_size passed to search_read_all
MaxBatch == 3
\* largest offset passed to search_read_all
MaxOffset == 3
\* largest limit passed to search_read_all
MaxLimit == 4

VARIABLES
    rows,       \* server: the rows matching the domain, in the requested order
    sra,        \* the search_read_all generator: its arguments and locals
    rv,         \* the HTTP response handed to json_response's wrapper
    outcome,    \* what the wrapper did with it: a returned value or a raised error
    context,    \* Client.context: the session's default context
    sent,       \* the last remote call: its method and the context transmitted
    passed,     \* the caller's per-call context mapping once the call is over
    mtd,        \* a ModificationTrackingDict: its items and its changes set
    mtdOp,      \* the last operation on it and the arguments it was given
    server,     \* server: the rows of the record's model, by id
    cache,      \* the cache backend's entries, by key
    cache_backend,  \* whether model_base was given a cache backend
    rec,        \* a record instance: its _values (a ModificationTrackingDict)
    calls,      \* the remote and cache calls of the last operation, in order
    op,         \* the last operation of the record layer and how it ended
    multi,      \* the last from_cache_multi: its arguments and the records returned
    left,       \* a record instance: its class's __model_name__ and its _values
    right,      \* another record instance
    eq,         \* the last comparison: left == right and right == left
    table,      \* server: the rows of the queried model, in id order
    query,      \* a Query: domain, _limit, _offset, _order_by, active_only
    result,     \* the last terminal operation: the search it sent, what came back
    heap,       \* the list objects of the interpreter, by address
    builders,   \* the Query objects built so far; a domain is the address of a list
    derived,    \* for each of them, the call that returned it and its receiver
    client,     \* a Client: its base_url and its session.auth
    requested,  \* the last HTTP request: its URL and the auth applied to it
    wclient,    \* Client.context of the wizard's client
    wsession,   \* a WizardSession: session_id, states, data, state, context
    wscope,     \* where the with-statement over Wizard.session(...) stands
    wcalls,     \* the create, execute and delete requests sent so far, in order
    wresult,    \* the last execute: its arguments, the reply, what the caller got
    task,       \* an AsyncResult: whether bound to a client, state, result
    polls,      \* how many times _fetch_result has posted to the server
    tret,       \* the last call on the AsyncResult: what it returned or raised
    ctor,       \* the arguments of Client(...) and the requests sent while constructing
    built,      \* the Client the constructor returned, or the error it raised
    build,      \* the libraries of the interpreter: which json module, whether base64 has encodestring
    obj,        \* the value handed to dumps
    wire,       \* the JSON document: what dumps produced or what the server sent
    decoded,    \* what loads returned for it
    srv,        \* server: the amount of the one row two processes share
    centry,     \* the shared cache backend: its entry under the row key, or none
    reader,     \* the process in from_cache(id): where it stands and the _values it holds
    writer      \* the process in save(): where it stands, its change and its _values

pagingVars == <<rows, sra>>

responseVars == <<rv, outcome>>

contextVars == <<context, sent, passed>>

trackingVars == <<mtd, mtdOp>>

recordVars == <<server, cache, cache_backend, rec, calls, op, multi>>

equalityVars == <<left, right, eq>>

queryVars == <<table, query, result>>

builderVars == <<heap, builders, derived>>

authVars == <<client, requested>>

wizardVars == <<wclient, wsession, wscope, wcalls, wresult>>

taskVars == <<task, polls, tret>>

constructVars == <<ctor, built>>

codecVars == <<build, obj, wire, decoded>>

raceVars == <<srv, centry, reader, writer>>

vars ==
    <<pagingVars, responseVars, contextVars, trackingVars, recordVars,
      equalityVars, queryVars, builderVars, authVars, wizardVars, taskVars,
      constructVars, codecVars, raceVars>>

notPaging ==
    <<responseVars, contextVars, trackingVars, recordVars, equalityVars,
      queryVars, builderVars, authVars, wizardVars, taskVars, constructVars,
      codecVars, raceVars>>

notResponse ==
    <<pagingVars, contextVars, trackingVars, recordVars, equalityVars,
      queryVars, builderVars, authVars, wizardVars, taskVars, constructVars,
      codecVars, raceVars>>

notContext ==
    <<pagingVars, responseVars, trackingVars, recordVars, equalityVars,
      queryVars, builderVars, authVars, wizardVars, taskVars, constructVars,
      codecVars, raceVars>>

notTracking ==
    <<pagingVars, responseVars, contextVars, recordVars, equalityVars,
      queryVars, builderVars, authVars, wizardVars, taskVars, constructVars,
      codecVars, raceVars>>

notRecord ==
    <<pagingVars, responseVars, contextVars, trackingVars, equalityVars,
      queryVars, builderVars, authVars, wizardVars, taskVars, constructVars,
      codecVars, raceVars>>

notEquality ==
    <<pagingVars, responseVars, contextVars, trackingVars, recordVars,
      queryVars, builderVars, authVars, wizardVars, taskVars, constructVars,
      codecVars, raceVars>>

notQuery ==
    <<pagingVars, responseVars, contextVars, trackingVars, recordVars,
      equalityVars, builderVars, authVars, wizardVars, taskVars,
      constructVars, codecVars, raceVars>>

notBuilder ==
    <<pagingVars, responseVars, contextVars, trackingVars, recordVars,
      equalityVars, queryVars, authVars, wizardVars, taskVars, constructVars,
      codecVars, raceVars>>

notAuth ==
    <<pagingVars, responseVars, contextVars, trackingVars, recordVars,
      equalityVars, queryVars, builderVars, wizardVars, taskVars,
      constructVars, codecVars, raceVars>>

notWizard ==
    <<pagingVars, responseVars, contextVars, trackingVars, recordVars,
      equalityVars, queryVars, builderVars, authVars, taskVars,
      constructVars, codecVars, raceVars>>

notTask ==
    <<pagingVars, responseVars, contextVars, trackingVars, recordVars,
      equalityVars, queryVars, builderVars, authVars, wizardVars,
      constructVars, codecVars, raceVars>>

notConstruct ==
    <<pagingVars, responseVars, contextVars, trackingVars, recordVars,
      equalityVars, queryVars, builderVars, authVars, wizardVars, taskVars,
      codecVars, raceVars>>

notCodec ==
    <<pagingVars, responseVars, contextVars, trackingVars, recordVars,
      equalityVars, queryVars, builderVars, authVars, wizardVars, taskVars,
      constructVars, raceVars>>

notRace ==
    <<pagingVars, responseVars, contextVars, trackingVars, recordVars,
      equalityVars, queryVars, builderVars, authVars, wizardVars, taskVars,
      constructVars, codecVars>>

(***************************************************************************)
(* Python values.                                                          *)
(***************************************************************************)
\* Python's None for an optional integer argument: <<>> is None, <<n>> is n.
None == <<>>

Some(n) == <<n>>

Range(s) == {s[i] : i \in DOMAIN s}

Min(a, b) == IF a <= b THEN a ELSE b

Max(a, b) == IF a >= b THEN a ELSE b

(***************************************************************************)
(* The value each part's variables have while another part is exercised.   *)
(***************************************************************************)
SraIdle ==
    [pc |-> "idle", batch_size |-> 0, step |-> 0, offset |-> 0, limit |-> None,
     end |-> 0, page_offset |-> 0, counts |-> 0,
     requests |-> <<>>, yielded |-> <<>>]

PagingIdle == rows = <<>> /\ sra = SraIdle

ResponseIdle == rv = <<>> /\ outcome = <<>>

ContextIdle == context = <<>> /\ sent = <<>> /\ passed = <<>>

TrackingIdle == mtd = <<>> /\ mtdOp = <<>>

RecordIdle ==
    /\ server = <<>>
    /\ cache = <<>>
    /\ cache_backend = FALSE
    /\ rec = <<>>
    /\ calls = <<>>
    /\ op = <<>>
    /\ multi = <<>>

EqualityIdle == left = <<>> /\ right = <<>> /\ eq = <<>>

QueryIdle == table = <<>> /\ query = <<>> /\ result = <<>>

BuilderIdle == heap = <<>> /\ builders = <<>> /\ derived = <<>>

AuthIdle == client = <<>> /\ requested = <<>>

WizardIdle == wclient = <<>> /\ wsession = <<>> /\ wscope = <<>> /\ wcalls = <<>> /\ wresult = <<>>

TaskIdle == task = <<>> /\ polls = <<>> /\ tret = <<>>

ConstructIdle == ctor = <<>> /\ built = <<>>

CodecIdle == build = <<>> /\ obj = <<>> /\ wire = <<>> /\ decoded = <<>>

RaceIdle == srv = <<>> /\ centry = <<>> /\ reader = <<>> /\ writer = <<>>

(***************************************************************************)
(* The server behind the model proxy.  search_read(domain, offset, limit,  *)
(* order, fields) answers the rows of the ordered result from position     *)
(* offset (None: from the start), at most limit of them (None: all);       *)
(* search_count(domain) answers how many rows match.                       *)
(***************************************************************************)
Slice(s, lo, hi) == [i \in 1..Max(0, Min(hi, Len(s)) - lo) |-> s[lo + i]]

search_read(matching, offset, limit) ==
    LET lo == IF offset = None THEN 0 ELSE offset[1]
        hi == IF limit = None THEN Len(matching) ELSE lo + limit[1]
    IN  Slice(matching, lo, hi)

search_count(matching) == Len(matching)

(***************************************************************************)
(* Model.search_read_all (client.py): a generator.  The call binds the     *)
(* arguments, a count call fixes the end when no limit is given, and the   *)
(* loop walks range(offset, end, batch_size), one search_read per page.    *)
(***************************************************************************)
\* the body's first statements: "if limit is None" decides whether to count
search_read_all(b, o, L) ==
    /\ sra.pc = "idle"
    /\ sra' = [sra EXCEPT !.pc = IF L = None THEN "count" ELSE "loop",
                          !.batch_size = b, !.step = b, !.offset = o,
                          !.limit = L,
                          !.end = IF L = None THEN 0 ELSE L[1] + o,
                          !.page_offset = o]
    /\ UNCHANGED <<rows, notPaging>>

\* record_count = self.search_count(domain); end = record_count + offset
sra_count ==
    /\ sra.pc = "count"
    /\ sra' = [sra EXCEPT !.pc = "loop",
                          !.end = search_count(rows) + sra.offset,
                          !.counts = sra.counts + 1]
    /\ UNCHANGED <<rows, notPaging>>

\* if page_offset + batch_size > end: batch_size = end - page_offset
PageSize_NoShrink(page_offset, batch_size, end) == batch_size

PageSize(page_offset, batch_size, end) ==
    IF page_offset + batch_size > end THEN end - page_offset ELSE batch_size

\* one iteration of "for page_offset in range(offset, end, batch_size)":
\* the range keeps the step it was built with, the body may shrink batch_size
sra_page ==
    /\ sra.pc = "loop"
    /\ sra.page_offset < sra.end
    /\ LET size == PageSize(sra.page_offset, sra.batch_size, sra.end)
           page == search_read(rows, Some(sra.page_offset), Some(size))
       IN  sra' = [sra EXCEPT !.batch_size = size,
                              !.requests = Append(sra.requests,
                                                  <<sra.page_offset, size>>),
                              !.yielded = sra.yielded \o page,
                              !.page_offset = sra.page_offset + sra.step]
    /\ UNCHANGED <<rows, notPaging>>

\* the range is exhausted: the generator returns
sra_done ==
    /\ sra.pc = "loop"
    /\ sra.page_offset >= sra.end
    /\ sra' = [sra EXCEPT !.pc = "done"]
    /\ UNCHANGED <<rows, notPaging>>

\* the collection is stable during the iteration: position i holds row n+1-i
InitPaging ==
    /\ \E n \in 0..MaxRows : rows = [i \in 1..n |-> n + 1 - i]
    /\ sra = SraIdle
    /\ ResponseIdle
    /\ ContextIdle
    /\ TrackingIdle
    /\ RecordIdle
    /\ EqualityIdle
    /\ QueryIdle
    /\ BuilderIdle
    /\ AuthIdle
    /\ WizardIdle
    /\ TaskIdle
    /\ ConstructIdle
    /\ CodecIdle
    /\ RaceIdle

NextPaging ==
    \/ \E b \in 1..MaxBatch, o \in 0..MaxOffset,
          L \in {None} \cup {Some(l) : l \in 0..MaxLimit} :
            search_read_all(b, o, L)
    \/ sra_count
    \/ sra_page
    \/ sra_done

SpecPaging == InitPaging /\ [][NextPaging]_vars

(***************************************************************************)
(* C1: on a stable collection of N rows search_read_all(batch_size = b,    *)
(* offset = o, limit = L) yields, for every b >= 1, exactly the rows at    *)
(* positions [o, min(N, end)) in order, each once, with end = o + L when a *)
(* limit is given and o + count when not; that is N - o rows without a     *)
(* limit and min(L, N - o) rows with one (an offset past the last row      *)
(* leaves the interval empty), and with o > 0 the first row yielded is not *)
(* the first row of the un-offset result.                                  *)
(***************************************************************************)
C1_End ==
    IF sra.limit = None THEN sra.offset + search_count(rows)
    ELSE sra.offset + sra.limit[1]

C1_SearchReadAllYields ==
    sra.pc = "done" =>
        LET N == Len(rows)
            o == sra.offset
            got == sra.yielded
        IN  /\ Len(got) = Max(0, Min(N, C1_End) - o)
            /\ \A i \in 1..Len(got) : got[i] = rows[o + i]
            /\ \A i, j \in 1..Len(got) : i # j => got[i] # got[j]
            /\ o <= N =>
                   Len(got) = IF sra.limit = None THEN N - o
                              ELSE Min(sra.limit[1], N - o)
            /\ (o > 0 /\ Len(got) > 0) => got[1] # rows[1]

\* batch_size smaller than the limit, an offset, and a last page cut short
C1_Witness ==
    /\ sra.pc = "done"
    /\ sra.offset > 0
    /\ sra.limit # None
    /\ Len(sra.requests) >= 2
    /\ sra.batch_size < sra.step
    /\ Len(sra.yielded) = sra.limit[1]

(***************************************************************************)
(* json_response (client.py) and the errors it raises (exceptions.py).     *)
(*                                                                         *)
(* A Python value is a record [form, str, n, body]: None, a string, an     *)
(* integer, the text of a response body, or the JSON object decoded from   *)
(* it.  A body is the JSON object the server sent: its "type", "message"   *)
(* and "code" members, "absent" for a member it does not have.             *)
(***************************************************************************)
NoBody == [type |-> "absent", message |-> "absent", code |-> "absent"]

PyNone == [form |-> "none", str |-> "", n |-> 0, body |-> NoBody]

PyStr(x) == [form |-> "str", str |-> x, n |-> 0, body |-> NoBody]

PyInt(x) == [form |-> "int", str |-> "", n |-> x, body |-> NoBody]

\* rv.text
Text(r) == [form |-> "text", str |-> "", n |-> 0, body |-> r.body]

\* loads(rv.text): the decoded JSON object
loads_text(r) == [form |-> "json", str |-> "", n |-> 0, body |-> r.body]

\* dict.get(key): None when the object has no such member
DictGet(b, key) == IF b[key] = "absent" THEN PyNone ELSE PyStr(b[key])

\* dict.get(key, default)
DictGetDefault(b, key, default) ==
    IF b[key] = "absent" THEN default ELSE PyStr(b[key])

\* rv.headers.get(name)
HeaderGet(value) == IF value = "absent" THEN PyNone ELSE PyStr(value)

Raise(cls, message, code, sentry_id) ==
    [kind |-> cls, message |-> message, code |-> code,
     sentry_id |-> sentry_id, value |-> PyNone]

Return(value) ==
    [kind |-> "return", message |-> PyNone, code |-> PyNone,
     sentry_id |-> PyNone, value |-> value]

\* the class hierarchy of exceptions.py
Bases(cls) ==
    CASE cls = "UserError" -> {"UserError", "ClientError", "Error"}
      [] cls = "AuthenticationError" ->
            {"AuthenticationError", "ClientError", "Error"}
      [] cls = "ClientError" -> {"ClientError", "Error"}
      [] cls = "ServerError" -> {"ServerError", "Error"}
      [] OTHER -> {}

\* the branch "elif 402 <= rv.status_code and rv.status_code < 500"
IsClientRange_Inclusive(status_code) == 402 <= status_code /\ status_code <= 500

IsClientRange(status_code) == 402 <= status_code /\ status_code < 500

json_response(r) ==
    IF r.status_code # 200 THEN
        IF r.status_code = 400 THEN
            IF r.body.type = "UserError"
            THEN Raise("UserError", DictGet(r.body, "message"),
                       DictGet(r.body, "code"), PyNone)
            ELSE Raise("ClientError", loads_text(r), PyInt(r.status_code),
                       PyNone)
        ELSE IF r.status_code = 401 THEN
            Raise("AuthenticationError", loads_text(r), PyInt(r.status_code),
                  PyNone)
        ELSE IF IsClientRange(r.status_code) THEN
            Raise("ClientError",
                  IF r.content_type = "application/json"
                  THEN DictGetDefault(r.body, "message", Text(r))
                  ELSE Text(r),
                  PyInt(r.status_code), PyNone)
        ELSE
            Raise("ServerError", Text(r), PyInt(r.status_code),
                  HeaderGet(r.sentry_id))
    ELSE Return(loads_text(r))

\* the statuses, bodies and headers a server answers with
Statuses == {200, 201, 302, 400, 401, 402, 403, 404, 409, 499, 500, 502, 503}

Bodies ==
    [type : {"UserError", "ValidationError", "absent"},
     message : {"absent", "Invalid value"},
     code : {"absent", "E42"}]

Responses ==
    [status_code : Statuses, body : Bodies,
     content_type : {"application/json", "text/html"},
     sentry_id : {"absent", "abc123"}]

NoOutcome == Raise("none", PyNone, PyNone, PyNone)

\* the decorated function has returned rv: the wrapper classifies it
wrapper ==
    /\ outcome = NoOutcome
    /\ outcome' = json_response(rv)
    /\ UNCHANGED <<rv, notResponse>>

InitResponse ==
    /\ rv \in Responses
    /\ outcome = NoOutcome
    /\ PagingIdle
    /\ ContextIdle
    /\ TrackingIdle
    /\ RecordIdle
    /\ EqualityIdle
    /\ QueryIdle
    /\ BuilderIdle
    /\ AuthIdle
    /\ WizardIdle
    /\ TaskIdle
    /\ ConstructIdle
    /\ CodecIdle
    /\ RaceIdle

NextResponse == wrapper

SpecResponse == InitResponse /\ [][NextResponse]_vars

(***************************************************************************)
(* C2: every response is classified by its status: 200 returns the         *)
(* decoded body; 400 with type UserError raises UserError with the body's  *)
(* message and code; any other 400 raises ClientError; 401 raises          *)
(* AuthenticationError; every other 4xx raises ClientError with the status *)
(* code; 5xx raises ServerError with the body text, the status code and    *)
(* the incident id of the header (None without it); no status other than   *)
(* 200 returns a value.                                                    *)
(***************************************************************************)
C2_Classified ==
    outcome # NoOutcome =>
        LET s == rv.status_code
        IN  /\ s = 200 => outcome = Return(loads_text(rv))
            /\ (s = 400 /\ rv.body.type = "UserError") =>
                   /\ outcome.kind = "UserError"
                   /\ outcome.message = DictGet(rv.body, "message")
                   /\ outcome.code = DictGet(rv.body, "code")
            /\ (s = 400 /\ rv.body.type # "UserError") =>
                   outcome.kind = "ClientError"
            /\ s = 401 => outcome.kind = "AuthenticationError"
            /\ (s >= 402 /\ s <= 499) =>
                   /\ outcome.kind = "ClientError"
                   /\ outcome.code = PyInt(s)
            /\ (s >= 500 /\ s <= 599) =>
                   /\ outcome.kind = "ServerError"
                   /\ outcome.message = Text(rv)
                   /\ outcome.code = PyInt(s)
                   /\ outcome.sentry_id = HeaderGet(rv.sentry_id)
            /\ s # 200 =>
                   /\ outcome.kind # "return"
                   /\ "Error" \in Bases(outcome.kind)
                   /\ outcome.value = PyNone

\* a server error that carries an incident id
C2_Witness ==
    /\ outcome.kind = "ServerError"
    /\ rv.status_code = 500
    /\ outcome.sentry_id = PyStr("abc123")

(***************************************************************************)
(* The context sent with a remote call (client.py).  A context is a Python *)
(* dict: a function from some of the keys to values.  An optional context  *)
(* argument is None (<<>>) or <<dict>>.                                    *)
(***************************************************************************)
CtxKeys == {"language", "company"}

CtxVals == {"a", "b"}

Contexts == UNION {[K -> CtxVals] : K \in SUBSET CtxKeys}

EmptyDict == [k \in {} |-> "a"]

\* dict.update: d with the items of e laid over it
DictUpdate(d, e) ==
    [k \in DOMAIN d \cup DOMAIN e |-> IF k \in DOMAIN e THEN e[k] ELSE d[k]]

\* Python's "x or y" for an optional dict: None and {} are both falsy
Or(x, y) == IF x = None \/ x[1] = EmptyDict THEN y ELSE x[1]

Call(method, percall, ctx) ==
    [method |-> method, default |-> context, percall |-> percall, ctx |-> ctx]

\* the three dicts a method has in hand when the request leaves: the
\* client's default, the caller's mapping, the context transmitted
Dicts(default, percall, ctx) ==
    [default |-> default, percall |-> percall, ctx |-> ctx]

\* "ctx = self.client.context; ctx.update(context or {})": the update lands
\* in the client's own dict
Overlay_InPlace(default, percall) ==
    LET ctx == DictUpdate(default, Or(percall, EmptyDict))
    IN  Dicts(ctx, percall, ctx)

\* "ctx = self.client.context.copy(); ctx.update(context or {})": copy()
\* makes a new dict and update() changes that one only
Overlay(default, percall) ==
    Dicts(default, percall, DictUpdate(default, Or(percall, EmptyDict)))

\* the request leaves with d.ctx; the dicts are left as the method left them
Send(method, c, d) ==
    /\ sent' = Call(method, c, d.ctx)
    /\ context' = d.default
    /\ passed' = d.percall
    /\ UNCHANGED notContext

\* Model.__getattr__'s proxy_method: context = self.client.context.copy();
\* context.update(kwargs.pop('context', {})), kwargs being the call's own dict
proxy_method(c) == Send("proxy_method", c, Overlay(context, c))

\* Model.get: ctx = self.client.context.copy(); ctx.update(context or {})
get(c) == Send("get", c, Overlay(context, c))

\* Model.find: 'context': dumps(context or self.client.context)
find(c) == Send("find", c, Dicts(context, c, Or(c, context)))

\* Wizard.create: ctx = self.client.context.copy(); ctx.update(context or {})
wizard_create(c) == Send("wizard_create", c, Overlay(context, c))

\* Wizard.execute: ctx = self.client.context.copy(); ctx.update(context or {})
wizard_execute(c) == Send("wizard_execute", c, Overlay(context, c))

\* Report.execute and InteractiveReport.execute: context =
\* self.client.context.copy(); context.update(kwargs.pop('context', {}))
report_execute(c) == Send("report_execute", c, Overlay(context, c))

\* a search of a query builder: rpc_model.<search>(..., context=self.context),
\* a proxy call given the dict Query.context has just built
query_search(active_only) ==
    Send("query_search", Some([active_test |-> active_only]),
         Overlay(context, Some([active_test |-> active_only])))

\* Client.refresh_context: self.context = User.get_preferences(True), itself
\* a proxy call without a per-call context; the server answers preferences
refresh_context(preferences) ==
    /\ sent' = Call("get_preferences", None, Overlay(context, None).ctx)
    /\ context' = preferences
    /\ passed' = None
    /\ UNCHANGED notContext

OptContexts == {None} \cup {<<c>> : c \in Contexts}

NoCall == [method |-> "none", default |-> EmptyDict, percall |-> None,
           ctx |-> EmptyDict]

InitContext ==
    /\ context \in Contexts
    /\ sent = NoCall
    /\ passed = None
    /\ PagingIdle
    /\ ResponseIdle
    /\ TrackingIdle
    /\ RecordIdle
    /\ EqualityIdle
    /\ QueryIdle
    /\ BuilderIdle
    /\ AuthIdle
    /\ WizardIdle
    /\ TaskIdle
    /\ ConstructIdle
    /\ CodecIdle
    /\ RaceIdle

NextContext ==
    \/ \E c \in OptContexts : proxy_method(c)
    \/ \E c \in OptContexts : get(c)
    \/ \E c \in OptContexts : find(c)
    \/ \E c \in OptContexts : wizard_create(c)
    \/ \E c \in OptContexts : wizard_execute(c)
    \/ \E c \in OptContexts : report_execute(c)
    \/ \E active_only \in BOOLEAN : query_search(active_only)
    \/ \E preferences \in Contexts : refresh_context(preferences)

SpecContext == InitContext /\ [][NextContext]_vars

(***************************************************************************)
(* C3: every remote call made through a model proxy (a generic method      *)
(* call, get, find) transmits the session's default context overlaid with  *)
(* the per-call context, the per-call value winning; the keys of the       *)
(* default that the call does not override are still transmitted.          *)
(***************************************************************************)
C3_ContextMerged ==
    sent.method \in {"proxy_method", "get", "find", "get_preferences"} =>
        /\ sent.ctx = DictUpdate(sent.default, Or(sent.percall, EmptyDict))
        /\ \A k \in DOMAIN sent.default : k \in DOMAIN sent.ctx

\* what does hold of find: the per-call context replaces the default
C3_FindReplaces ==
    sent.method = "find" =>
        sent.ctx = IF sent.percall = None \/ sent.percall[1] = EmptyDict
                   THEN sent.default ELSE sent.percall[1]

(***************************************************************************)
(* ModificationTrackingDict (model.py): a dict and the set of the keys     *)
(* that were assigned a value different from the one they held.            *)
(***************************************************************************)
\* values a key can be given
MaxTrackVal == 2

TrackKeys == {"a", "b", "l"}

TrackVals == 1..MaxTrackVal

Mappings == UNION {[K -> TrackVals] : K \in SUBSET TrackKeys}

\* __init__: self.changes = set([]); dict.__init__ does not call __setitem__
ModificationTrackingDict(mapping) == [data |-> mapping, changes |-> {}]

\* dict.__setitem__(self, key, val)
DictSetItem(data, key, val) ==
    [k \in DOMAIN data \cup {key} |-> IF k = key THEN val ELSE data[k]]

\* "if key not in self or self[key] != val"
IsChange_Always(data, key, val) == TRUE

IsChange(data, key, val) == key \notin DOMAIN data \/ data[key] # val

\* __setitem__
setitem(d, key, val) ==
    [data |-> DictSetItem(d.data, key, val),
     changes |-> IF IsChange(d.data, key, val) THEN d.changes \cup {key}
                 ELSE d.changes]

\* update: "for k, v in dict(*args, **kwargs).items(): self[k] = v"
RECURSIVE update_loop(_, _, _)
update_loop(d, items, todo) ==
    IF todo = {} THEN d
    ELSE LET k == CHOOSE x \in todo : TRUE
         IN  update_loop(setitem(d, k, items[k]), items, todo \ {k})

update(d, items) == update_loop(d, items, DOMAIN items)

Op(kind, key, val, items) ==
    [kind |-> kind, key |-> key, val |-> val, items |-> items]

mtd_construct(mapping) ==
    /\ mtd' = ModificationTrackingDict(mapping)
    /\ mtdOp' = Op("construct", "", 0, mapping)
    /\ UNCHANGED notTracking

mtd_setitem(key, val) ==
    /\ mtd' = setitem(mtd, key, val)
    /\ mtdOp' = Op("setitem", key, val, [k \in {} |-> 0])
    /\ UNCHANGED notTracking

mtd_update(items) ==
    /\ mtd' = update(mtd, items)
    /\ mtdOp' = Op("update", "", 0, items)
    /\ UNCHANGED notTracking

InitTracking ==
    /\ \E mapping \in Mappings :
          /\ mtd = ModificationTrackingDict(mapping)
          /\ mtdOp = Op("construct", "", 0, mapping)
    /\ PagingIdle
    /\ ResponseIdle
    /\ ContextIdle
    /\ RecordIdle
    /\ EqualityIdle
    /\ QueryIdle
    /\ BuilderIdle
    /\ AuthIdle
    /\ WizardIdle
    /\ TaskIdle
    /\ ConstructIdle
    /\ CodecIdle
    /\ RaceIdle

NextTracking ==
    \/ \E mapping \in Mappings : mtd_construct(mapping)
    \/ \E key \in TrackKeys, val \in TrackVals : mtd_setitem(key, val)
    \/ \E items \in Mappings : mtd_update(items)

SpecTracking == InitTracking /\ [][NextTracking]_vars

(***************************************************************************)
(* C8: a container just constructed from a mapping has an empty dirty set; *)
(* assigning a key the value it holds adds nothing to the dirty set;       *)
(* assigning a key a different value, or a key that is not present, adds   *)
(* exactly that key; update() applies the same rule to each key it         *)
(* carries.                                                                *)
(***************************************************************************)
C8_Differs(key, val) == key \notin DOMAIN mtd.data \/ mtd.data[key] # val

C8_DirtyTracking ==
    /\ (mtdOp.kind = "construct" => mtd.changes = {})
    /\ [][/\ mtdOp'.kind = "construct" =>
                /\ mtd'.changes = {}
                /\ mtd'.data = mtdOp'.items
          /\ mtdOp'.kind = "setitem" =>
                /\ mtd'.changes =
                       mtd.changes \cup
                       (IF C8_Differs(mtdOp'.key, mtdOp'.val)
                        THEN {mtdOp'.key} ELSE {})
                /\ mtd'.data = DictSetItem(mtd.data, mtdOp'.key, mtdOp'.val)
          /\ mtdOp'.kind = "update" =>
                /\ mtd'.changes =
                       mtd.changes \cup
                       {k \in DOMAIN mtdOp'.items :
                            C8_Differs(k, mtdOp'.items[k])}
                /\ \A k \in DOMAIN mtdOp'.items :
                       mtd'.data[k] = mtdOp'.items[k]
                /\ DOMAIN mtd'.data = DOMAIN mtd.data \cup DOMAIN mtdOp'.items
         ]_vars

\* an update that carried one key with its old value and one with a new value
C8_Witness ==
    /\ mtdOp.kind = "update"
    /\ \E k \in DOMAIN mtdOp.items : k \in mtd.changes
    /\ \E k \in DOMAIN mtdOp.items : k \notin mtd.changes
    /\ Cardinality(mtd.changes) = 1

(***************************************************************************)
(* The active-record layer (model.py): a record class with the fields id   *)
(* (IntType) and amount (DecimalType), bound to a client and, optionally,  *)
(* to a cache backend.                                                     *)
(*                                                                         *)
(* A field value is a record [cls, v]: an int, a Decimal or None.  The     *)
(* server keeps, for each id that exists, the row's amount.                *)
(***************************************************************************)
\* ids the server hands out
MaxRecId == 2
\* amounts a row can hold
MaxAmount == 2

RecIds == 1..MaxRecId

Amounts == 1..MaxAmount

IntV(n) == [cls |-> "int", v |-> n]

DecV(n) == [cls |-> "Decimal", v |-> n]

NoneV == [cls |-> "NoneType", v |-> 0]

\* Python's truth value of a field value
Truthy(val) == val.cls # "NoneType" /\ val.v # 0

EmptyValues == [f \in {} |-> NoneV]

DictRemove(d, key) == [k \in DOMAIN d \ {key} |-> d[k]]

\* the class's field registry built by the metaclass: cls._fields and
\* cls._eager_fields (a BaseType is eager unless it says otherwise); the
\* class lists cost in its _fields without an eager descriptor, and the
\* server keeps a row's cost equal to its amount
Fields == {"id", "amount", "cost"}

EagerFields == {"id", "amount"}

\* the cast of each field's descriptor
Cast(name) == IF name = "id" THEN "int" ELSE "Decimal"

\* BaseType.convert
convert(cast, value) ==
    IF value = NoneV THEN NoneV
    ELSE IF value.cls = cast THEN value
    ELSE [cls |-> cast, v |-> value.v]

\* BaseType.__set__: instance._values[self.name] = self.convert(value)
BaseType_set(values, name, value) ==
    setitem(values, name, convert(Cast(name), value))

\* BaseType.__get__ for id: instance._values.get(self.name, self.default)
Model_id(values) ==
    IF "id" \in DOMAIN values.data THEN values.data["id"] ELSE NoneV

\* Model.__init__(values, id): "if id is not None: values['id'] = id"
Model_init(values, id) ==
    ModificationTrackingDict(
        IF id # NoneV THEN DictSetItem(values, "id", id) ELSE values)

\* Model.get_cache_key
get_cache_key(id) == <<"demo", "product.product", id>>

(***************************************************************************)
(* serialization.py: dumps and loads of a record's values.  The encoder    *)
(* turns a Decimal into an object tagged "Decimal"; the decoder turns an   *)
(* object whose tag is registered back into the value.                     *)
(***************************************************************************)
JSONEncoder_default(val) ==
    CASE val.cls = "Decimal" ->
            [json |-> "object", class |-> "Decimal", v |-> val.v]
      [] val.cls = "int" -> [json |-> "number", class |-> "", v |-> val.v]
      [] OTHER -> [json |-> "null", class |-> "", v |-> 0]

JSONDecoder_call(node) ==
    CASE node.json = "object" /\ node.class = "Decimal" -> DecV(node.v)
      [] node.json = "number" -> IntV(node.v)
      [] OTHER -> NoneV

dumps(values) == [f \in DOMAIN values |-> JSONEncoder_default(values[f])]

loads(text) == [f \in DOMAIN text |-> JSONDecoder_call(text[f])]

(***************************************************************************)
(* The methods, as functions of the state they read and write: the server, *)
(* the cache, the instance's _values, the calls made so far and whether an *)
(* error was raised.                                                       *)
(***************************************************************************)
Begin(values) ==
    [server |-> server, cache |-> cache, values |-> values,
     calls |-> <<>>, raised |-> FALSE]

Event(call, id, payload, fields) ==
    [call |-> call, id |-> id, payload |-> payload, fields |-> fields]

Log(st, event) == [st EXCEPT !.calls = Append(@, event)]

Exists(st, id) == id.cls = "int" /\ id.v \in DOMAIN st.server

\* the row the server answers to read([id], fields)
ServerRow(st, n, fields) ==
    [f \in fields \cup {"id"} |->
        IF f = "id" THEN IntV(n) ELSE DecV(st.server[n])]

\* cls.rpc.write([id], payload): fails when the row does not exist
rpc_write(st, id, payload) ==
    LET s1 == Log(st, Event("write", id, payload, {}))
    IN  IF ~Exists(st, id) THEN [s1 EXCEPT !.raised = TRUE]
        ELSE IF "amount" \in DOMAIN payload
        THEN [s1 EXCEPT !.server[id.v] = payload["amount"].v]
        ELSE s1

\* cls.rpc.create([values]): the server picks the id, and the amount when
\* the values carry none
rpc_create(st, payload, newid, default) ==
    LET s1 == Log(st, Event("create", NoneV, payload, {}))
        amount == IF "amount" \in DOMAIN payload /\ payload["amount"] # NoneV
                  THEN payload["amount"].v ELSE default
    IN  [s1 EXCEPT !.server = DictSetItem(st.server, newid, amount)]

\* cls.rpc.delete([id]): fails when the row does not exist
rpc_delete(st, id) ==
    LET s1 == Log(st, Event("delete", id, EmptyValues, {}))
    IN  IF ~Exists(st, id) THEN [s1 EXCEPT !.raised = TRUE]
        ELSE [s1 EXCEPT !.server = DictRemove(st.server, id.v)]

\* Model.changes: the dirty fields with their current values
Model_changes_All(values) == values.data

Model_changes(values) == [f \in values.changes |-> values.data[f]]

\* Model.has_changed: "return len(self._values) > 0"
Model_has_changed(values) == Cardinality(DOMAIN values.data) > 0

\* Model.invalidate_cache
Model_invalidate_cache_Skip(st) == st

Model_invalidate_cache(st) ==
    IF cache_backend
    THEN LET key == get_cache_key(Model_id(st.values))
         IN  Log([st EXCEPT !.cache = DictRemove(@, key)],
                 Event("cache.delete", Model_id(st.values), EmptyValues, {}))
    ELSE st

\* Model.store_in_cache
Model_store_in_cache_Skip(st) == st

Model_store_in_cache(st) ==
    IF cache_backend
    THEN LET key == get_cache_key(Model_id(st.values))
         IN  Log([st EXCEPT !.cache = DictSetItem(@, key, dumps(st.values.data))],
                 Event("cache.set", Model_id(st.values), st.values.data, {}))
    ELSE st

\* Model.refresh: invalidate, assert self.id, read every field of the class
Model_refresh_Skip(st) == st

Model_refresh(st) ==
    LET s1 == Model_invalidate_cache(st)
        id == Model_id(s1.values)
        s2 == Log(s1, Event("read", id, EmptyValues, Fields))
    IN  IF ~Truthy(id) THEN [s1 EXCEPT !.raised = TRUE]
        ELSE IF ~Exists(s2, id) THEN [s2 EXCEPT !.raised = TRUE]
        ELSE [s2 EXCEPT !.values =
                  ModificationTrackingDict(ServerRow(s2, id.v, Fields))]

\* Model.save
Model_save(st, newid, default) ==
    LET id == Model_id(st.values)
        s1 == IF Truthy(id)
              THEN IF Model_changes(st.values) # EmptyValues
                   THEN rpc_write(st, id, Model_changes(st.values))
                   ELSE st
              ELSE LET c == rpc_create(st, st.values.data, newid, default)
                   IN  [c EXCEPT !.values =
                            BaseType_set(st.values, "id", IntV(newid))]
    IN  IF s1.raised THEN s1 ELSE Model_refresh(s1)

\* Model.delete
Model_delete(st) == rpc_delete(st, Model_id(st.values))

\* Model.get_by_id: cls(values=cls.rpc.read([id], eager fields)[0])
Model_get_by_id(st, id) ==
    LET s1 == Log(st, Event("read", id, EmptyValues, EagerFields))
    IN  IF ~Exists(s1, id) THEN [s1 EXCEPT !.raised = TRUE]
        ELSE [s1 EXCEPT !.values =
                  Model_init(ServerRow(s1, id.v, EagerFields), NoneV)]

\* Model.from_cache for one id
Model_from_cache(st, id) ==
    LET key == get_cache_key(id)
        s1 == IF cache_backend
              THEN Log(st, Event("cache.get", id, EmptyValues, {}))
              ELSE st
        hit == cache_backend /\ key \in DOMAIN st.cache
    IN  IF hit
        THEN [s1 EXCEPT !.values = Model_init(loads(st.cache[key]), id)]
        ELSE LET s2 == Model_refresh(
                           [s1 EXCEPT !.values = Model_init(EmptyValues, id)])
             IN  IF s2.raised THEN s2 ELSE Model_store_in_cache(s2)

(***************************************************************************)
(* The operations of the record layer as steps.  A class method that       *)
(* raises hands no instance to the caller: rec stays the instance the      *)
(* caller had.                                                             *)
(***************************************************************************)
Finish(name, arg, st, keep) ==
    /\ server' = st.server
    /\ cache' = st.cache
    /\ rec' = IF keep THEN rec ELSE st.values
    /\ calls' = st.calls
    /\ op' = [name |-> name, arg |-> arg,
              status |-> IF st.raised THEN "raised" ELSE "ok"]
    /\ UNCHANGED <<cache_backend, multi, notRecord>>

\* rec = cls(amount=...) or cls()
CallNew(values) ==
    Finish("new", NoneV, Begin(Model_init(values, NoneV)), FALSE)

CallGetById(id) ==
    LET st == Model_get_by_id(Begin(rec), id)
    IN  Finish("get_by_id", id, st, st.raised)

CallFromCache(id) ==
    LET st == Model_from_cache(Begin(rec), id)
    IN  Finish("from_cache", id, st, st.raised)

\* rec.amount = value
CallSetAmount(value) ==
    Finish("set", value, Begin(BaseType_set(rec, "amount", value)), FALSE)

CallSave(newid, default) ==
    Finish("save", Model_id(rec), Model_save(Begin(rec), newid, default), FALSE)

CallRefresh ==
    Finish("refresh", Model_id(rec), Model_refresh(Begin(rec)), FALSE)

CallDelete ==
    Finish("delete", Model_id(rec), Model_delete(Begin(rec)), FALSE)

\* the backend drops an entry whose cache_expire has passed
CacheExpire(key) ==
    /\ key \in DOMAIN cache
    /\ cache' = DictRemove(cache, key)
    /\ calls' = <<>>
    /\ op' = [name |-> "expire", arg |-> key[3], status |-> "ok"]
    /\ UNCHANGED <<server, cache_backend, rec, multi, notRecord>>

\* the ids the server can give a created row (none is drawn when the record
\* has an id: save then writes)
FreeIds == IF Truthy(Model_id(rec)) THEN {0} ELSE RecIds \ DOMAIN server

AssignedValues == {DecV(n) : n \in Amounts} \cup {IntV(n) : n \in Amounts}

NewValues ==
    {EmptyValues} \cup {[f \in {"amount"} |-> DecV(n)] : n \in Amounts}

InitRecord ==
    /\ server \in UNION {[S -> Amounts] : S \in SUBSET RecIds}
    /\ cache = [k \in {} |-> EmptyValues]
    /\ cache_backend \in BOOLEAN
    /\ rec = Model_init(EmptyValues, NoneV)
    /\ calls = <<>>
    /\ op = [name |-> "new", arg |-> NoneV, status |-> "ok"]
    /\ multi = <<>>
    /\ PagingIdle
    /\ ResponseIdle
    /\ ContextIdle
    /\ TrackingIdle
    /\ EqualityIdle
    /\ QueryIdle
    /\ BuilderIdle
    /\ AuthIdle
    /\ WizardIdle
    /\ TaskIdle
    /\ ConstructIdle
    /\ CodecIdle
    /\ RaceIdle

NextRecord ==
    \/ \E values \in NewValues : CallNew(values)
    \/ \E n \in RecIds : CallGetById(IntV(n))
    \/ \E n \in RecIds : CallFromCache(IntV(n))
    \/ \E value \in AssignedValues : CallSetAmount(value)
    \/ \E newid \in FreeIds, default \in Amounts : CallSave(newid, default)
    \/ CallRefresh
    \/ CallDelete
    \/ \E key \in DOMAIN cache : CacheExpire(key)

SpecRecord == InitRecord /\ [][NextRecord]_vars

NumCalls(cs, name) == Cardinality({i \in DOMAIN cs : cs[i].call = name})

(***************************************************************************)
(* C4: save() on a record that has an id issues at most one remote write,  *)
(* whose payload is exactly the dirty field set with the current values of *)
(* those fields; when the dirty set is empty it issues no write and no     *)
(* create, and still exactly one refresh read.                             *)
(***************************************************************************)
C4_SaveWritesDirty ==
    [][(op'.name = "save" /\ Truthy(Model_id(rec))) =>
          LET dirty == [f \in rec.changes |-> rec.data[f]]
              writes == {i \in DOMAIN calls' : calls'[i].call = "write"}
          IN  /\ Cardinality(writes) <= 1
              /\ \A i \in writes :
                     /\ calls'[i].payload = dirty
                     /\ calls'[i].id = Model_id(rec)
              /\ NumCalls(calls', "create") = 0
              /\ rec.changes = {} =>
                     /\ writes = {}
                     /\ NumCalls(calls', "read") = 1
      ]_vars

\* a save that wrote one changed field and then refreshed
C4_Witness ==
    /\ op.name = "save"
    /\ op.status = "ok"
    /\ NumCalls(calls, "write") = 1
    /\ NumCalls(calls, "read") = 1
    /\ \E i \in DOMAIN calls :
          calls[i].call = "write" /\ DOMAIN calls[i].payload = {"amount"}

C6_DeleteInvalidates ==
    (op.name = "delete" /\ op.status = "ok" /\ cache_backend) =>
        get_cache_key(op.arg) \notin DOMAIN cache

(***************************************************************************)
(* C7: with a cache backend and no entry for the id, from_cache(id) makes  *)
(* exactly one remote read and exactly one cache set and returns a record  *)
(* with the fetched values; a second from_cache(id), the entry still       *)
(* there, makes no remote read and returns a record with the same values.  *)
(***************************************************************************)
C7_FromCache ==
    [][(op'.name = "from_cache" /\ cache_backend) =>
          LET id == op'.arg
              key == get_cache_key(id)
          IN  /\ (key \notin DOMAIN cache /\ op'.status = "ok") =>
                     /\ NumCalls(calls', "read") = 1
                     /\ NumCalls(calls', "cache.set") = 1
                     /\ rec'.data = [f \in Fields |->
                                        IF f = "id" THEN id
                                        ELSE DecV(server[id.v])]
                     /\ key \in DOMAIN cache'
                     /\ loads(cache'[key]) = rec'.data
              /\ key \in DOMAIN cache =>
                     /\ op'.status = "ok"
                     /\ NumCalls(calls', "read") = 0
                     /\ rec'.data = loads(cache[key])
                     /\ cache' = cache
              /\ (key \in DOMAIN cache /\ op.name = "from_cache"
                  /\ op.arg = id /\ op.status = "ok") =>
                     rec'.data = rec.data
      ]_vars

\* the second from_cache(id): a hit, answered without a remote read
C7_Witness ==
    /\ op.name = "from_cache"
    /\ op.status = "ok"
    /\ cache_backend
    /\ NumCalls(calls, "cache.get") = 1
    /\ NumCalls(calls, "read") = 0
    /\ rec.data = loads(cache[get_cache_key(op.arg)])

(***************************************************************************)
(* Model.__eq__ (model.py).  An instance is its class's __model_name__ and *)
(* its _values; its id is _values.get('id').                               *)
(***************************************************************************)
\* largest id of a compared record
MaxEqId == 2
\* values of the field name
MaxName == 2

StrV(n) == [cls |-> "str", v |-> n]

Instance(model_name, values) == [model_name |-> model_name, values |-> values]

Model_eq_ById(self, other) ==
    IF other.model_name # self.model_name THEN FALSE
    ELSE Model_id(other.values) = Model_id(self.values)

Model_eq(self, other) ==
    IF other.model_name # self.model_name THEN FALSE
    ELSE IF Truthy(Model_id(self.values))
            /\ Model_id(other.values) # Model_id(self.values) THEN FALSE
    ELSE IF ~Truthy(Model_id(self.values))
            /\ self.values.data # other.values.data THEN FALSE
    ELSE TRUE

EqIds == {NoneV} \cup {IntV(n) : n \in 0..MaxEqId}

EqNames == {StrV(n) : n \in 1..MaxName}

\* the _values of an instance: with or without an id, with or without a name
EqValues ==
    {[f \in K |-> IF f = "id" THEN i ELSE n] :
        K \in SUBSET {"id", "name"}, i \in EqIds, n \in EqNames}

ModelNames == {"res.user", "ir.module"}

Instances ==
    {Instance(m, ModificationTrackingDict(d)) : m \in ModelNames, d \in EqValues}

NotCompared == [done |-> FALSE, lr |-> FALSE, rl |-> FALSE]

\* user.name = value, on one of the two instances
EditLeft(value) ==
    /\ left' = [left EXCEPT !.values = setitem(@, "name", value)]
    /\ eq' = NotCompared
    /\ UNCHANGED <<right, notEquality>>

EditRight(value) ==
    /\ right' = [right EXCEPT !.values = setitem(@, "name", value)]
    /\ eq' = NotCompared
    /\ UNCHANGED <<left, notEquality>>

\* left == right and right == left
Compare ==
    /\ eq' = [done |-> TRUE, lr |-> Model_eq(left, right),
              rl |-> Model_eq(right, left)]
    /\ UNCHANGED <<left, right, notEquality>>

InitEquality ==
    /\ left \in Instances
    /\ right \in Instances
    /\ eq = NotCompared
    /\ PagingIdle
    /\ ResponseIdle
    /\ ContextIdle
    /\ TrackingIdle
    /\ RecordIdle
    /\ QueryIdle
    /\ BuilderIdle
    /\ AuthIdle
    /\ WizardIdle
    /\ TaskIdle
    /\ ConstructIdle
    /\ CodecIdle
    /\ RaceIdle

NextEquality ==
    \/ \E value \in EqNames : EditLeft(value)
    \/ \E value \in EqNames : EditRight(value)
    \/ Compare

SpecEquality == InitEquality /\ [][NextEquality]_vars

(***************************************************************************)
(* C9: two record instances are equal iff they have the same entity-type   *)
(* name and either both are saved with the same id or both are unsaved     *)
(* with identical value containers; two saved instances with the same id   *)
(* stay equal after one of them is given unsaved local edits; instances of *)
(* different entity types are never equal; the relation is symmetric.      *)
(***************************************************************************)
C9_Saved(r) == Truthy(Model_id(r.values))

C9_Equality ==
    eq.done =>
        /\ eq.lr <=>
              /\ left.model_name = right.model_name
              /\ \/ /\ C9_Saved(left)
                    /\ C9_Saved(right)
                    /\ Model_id(left.values) = Model_id(right.values)
                 \/ /\ ~C9_Saved(left)
                    /\ ~C9_Saved(right)
                    /\ left.values.data = right.values.data
        /\ eq.lr <=> eq.rl
        /\ left.model_name # right.model_name => ~eq.lr
        /\ (/\ left.model_name = right.model_name
            /\ C9_Saved(left)
            /\ Model_id(left.values) = Model_id(right.values)) => eq.lr

\* two saved instances with the same id, one of them edited: still equal
C9_Witness ==
    /\ eq.done
    /\ eq.lr
    /\ C9_Saved(left)
    /\ left.values.changes # {}
    /\ right.values.changes = {}
    /\ left.values.data # right.values.data

(***************************************************************************)
(* Query (model.py): a builder over a model proxy.  A row of the queried   *)
(* model has an id, a colour and an active flag; a predicate of a domain   *)
(* is a triple (field, '=', value).                                        *)
(***************************************************************************)
\* rows of the queried model
MaxTable == 4
\* values of the field colour
MaxColour == 2
\* predicates a domain accumulates
MaxDomain == 2
\* largest limit and offset given to a builder
MaxWindow == 2

Reverse(s) == [i \in 1..Len(s) |-> s[Len(s) + 1 - i]]

Holds(row, predicate) == row[predicate[1]] = predicate[3]

\* server: the rows that match a domain under a context, in an order
Matching(domain, ctx, order) ==
    LET found == SelectSeq(table,
                     LAMBDA row :
                         /\ \A i \in 1..Len(domain) : Holds(row, domain[i])
                         /\ ctx.active_test => row.active)
    IN  IF order = Some("DESC") THEN Reverse(found) ELSE found

\* Query.__init__
Query_init ==
    [domain |-> <<>>, limit |-> None, offset |-> None, order_by |-> None,
     active_only |-> TRUE]

\* Query.context
Query_context(self) == [active_test |-> self.active_only]

\* Query.__copy__
Query_copy(self) ==
    [domain |-> self.domain, limit |-> self.limit, offset |-> self.offset,
     order_by |-> self.order_by, active_only |-> self.active_only]

\* Query.filter_by with one keyword
Query_filter_by(self, field, value) ==
    [Query_copy(self) EXCEPT !.domain = Append(@, <<field, "=", value>>)]

Query_limit(self, limit) == [Query_copy(self) EXCEPT !.limit = Some(limit)]

Query_offset(self, offset) == [Query_copy(self) EXCEPT !.offset = Some(offset)]

Query_order_by(self, criterion) ==
    [Query_copy(self) EXCEPT !.order_by = Some(criterion)]

Query_show_active_only(self, state) ==
    [Query_copy(self) EXCEPT !.active_only = state]

\* self.rpc_model.search_read(domain, offset, limit, order, fields, context)
Request(method, domain, offset, limit, order, ctx) ==
    [method |-> method, domain |-> domain, offset |-> offset, limit |-> limit,
     order |-> order, context |-> ctx]

Answer(request) ==
    LET found == Matching(request.domain, request.context, request.order)
    IN  search_read(found, request.offset, request.limit)

Outcome(kind, found, n) == [kind |-> kind, rows |-> found, n |-> n]

\* "results and results[0] or None"
FirstOrNone(results) ==
    IF Len(results) > 0 THEN Outcome("row", <<results[1]>>, 0)
    ELSE Outcome("None", <<>>, 0)

\* Query.first: search_read(self.domain, None, 1, self._order_by, ...)
Query_first(self) ==
    LET request == Request("search_read", self.domain, None, Some(1),
                           self.order_by, Query_context(self))
    IN  [op |-> "first", request |-> request,
         outcome |-> FirstOrNone(Answer(request))]

\* Query.one: search_read(self.domain, 2, None, self._order_by, ...)
Query_one(self) ==
    LET request == Request("search_read", self.domain, Some(2), None,
                           self.order_by, Query_context(self))
        results == Answer(request)
    IN  [op |-> "one", request |-> request,
         outcome |-> IF Len(results) = 0
                     THEN Outcome("NoResultFound", <<>>, 0)
                     ELSE IF Len(results) > 1
                     THEN Outcome("MultipleResultsFound", <<>>, 0)
                     ELSE Outcome("row", <<results[1]>>, 0)]

\* Query.count: search_count(self.domain, context=self.context)
Query_count(self) ==
    LET request == Request("search_count", self.domain, None, None, None,
                           Query_context(self))
    IN  [op |-> "count", request |-> request,
         outcome |-> Outcome("count", <<>>, search_count(Answer(request)))]

\* Query.exists: search_count(self.domain, context=self.context) > 0
Query_exists(self) ==
    LET request == Request("search_count", self.domain, None, None, None,
                           Query_context(self))
    IN  [op |-> "exists", request |-> request,
         outcome |-> Outcome(IF search_count(Answer(request)) > 0
                             THEN "True" ELSE "False", <<>>, 0)]

\* Query.all: search_read_all(self.domain, self._order_by, self.fields,
\* context=self.context, offset=self._offset or 0, limit=self._limit), which
\* yields the rows of the window page by page
Query_all(self) ==
    LET request == Request("search_read_all", self.domain,
                           IF self.offset = None THEN Some(0) ELSE self.offset,
                           self.limit, self.order_by, Query_context(self))
    IN  [op |-> "all", request |-> request,
         outcome |-> Outcome("rows", Answer(request), 0)]

\* a get that searches as the builder stands: its domain and its context
Query_get_Scoped(self, id) ==
    LET request == Request("search_read",
                           Append(self.domain, <<"id", "=", id>>),
                           None, None, None, Query_context(self))
    IN  [op |-> "get", request |-> request,
         outcome |-> FirstOrNone(Answer(request))]

\* Query.get: ctx = self.context.copy(); ctx['active_test'] = False;
\* search_read([('id', '=', id)], None, None, None, self.fields, context=ctx)
Query_get(self, id) ==
    LET ctx == [Query_context(self) EXCEPT !.active_test = FALSE]
        request == Request("search_read", <<<<"id", "=", id>>>>,
                           None, None, None, ctx)
    IN  [op |-> "get", request |-> request,
         outcome |-> FirstOrNone(Answer(request))]

\* server: the ids of rows
Ids(found) == [i \in 1..Len(found) |-> found[i].id]

\* a search for ids that applies the builder's window and ordering
Query_search_Windowed(self) ==
    Request("search", self.domain, self.offset, self.limit, self.order_by,
            Query_context(self))

\* ids = self.rpc_model.search(self.domain, context=self.context)
Query_search(self) ==
    Request("search", self.domain, None, None, None, Query_context(self))

\* "if ids: self.rpc_model.<method>(ids, ...)": the request that follows the
\* search is kept as the outcome, "None" standing for no request
Query_affect(self, what, method) ==
    LET request == Query_search(self)
        ids == Ids(Answer(request))
    IN  [op |-> what, request |-> request,
         outcome |-> IF Len(ids) > 0 THEN Outcome(method, ids, 0)
                     ELSE Outcome("None", <<>>, 0)]

\* Query.delete
Query_delete(self) == Query_affect(self, "delete", "delete")

\* Query.archive: self.rpc_model.write(ids, {'active': False})
Query_archive(self) == Query_affect(self, "archive", "write")

\* server: the table after delete(ids)
Deleted(ids) == SelectSeq(table, LAMBDA row : row.id \notin Range(ids))

\* server: the table after write(ids, {'active': False})
Archived(ids) ==
    [i \in 1..Len(table) |->
        IF table[i].id \in Range(ids) THEN [table[i] EXCEPT !.active = FALSE]
        ELSE table[i]]

NoResult ==
    [op |-> "none",
     request |-> Request("none", <<>>, None, None, None,
                         [active_test |-> TRUE]),
     outcome |-> Outcome("None", <<>>, 0)]

Build(q) ==
    /\ query' = q
    /\ result' = NoResult
    /\ UNCHANGED <<table, notQuery>>

Terminal(r) ==
    /\ result' = r
    /\ UNCHANGED <<table, query, notQuery>>

CallFilterBy(value) ==
    /\ Len(query.domain) < MaxDomain
    /\ Build(Query_filter_by(query, "colour", value))

CallLimit(n) == Build(Query_limit(query, n))

CallOffset(n) == Build(Query_offset(query, n))

CallOrderBy(criterion) == Build(Query_order_by(query, criterion))

CallShowActiveOnly(state) == Build(Query_show_active_only(query, state))

CallFirst == Terminal(Query_first(query))

CallOne == Terminal(Query_one(query))

CallCount == Terminal(Query_count(query))

CallQueryExists == Terminal(Query_exists(query))

CallQueryAll == Terminal(Query_all(query))

CallQueryGet(id) == Terminal(Query_get(query, id))

CallQueryDelete ==
    LET r == Query_delete(query)
    IN  /\ result' = r
        /\ table' = IF r.outcome.kind = "delete" THEN Deleted(r.outcome.rows)
                    ELSE table
        /\ UNCHANGED <<query, notQuery>>

CallQueryArchive ==
    LET r == Query_archive(query)
    IN  /\ result' = r
        /\ table' = IF r.outcome.kind = "write" THEN Archived(r.outcome.rows)
                    ELSE table
        /\ UNCHANGED <<query, notQuery>>

\* row i has colour 1 + i mod MaxColour; every third row is archived
InitQuery ==
    /\ \E n \in 0..MaxTable :
          table = [i \in 1..n |->
                      [id |-> i, colour |-> 1 + (i % MaxColour),
                       active |-> i % 3 # 0]]
    /\ query = Query_init
    /\ result = NoResult
    /\ PagingIdle
    /\ ResponseIdle
    /\ ContextIdle
    /\ TrackingIdle
    /\ RecordIdle
    /\ EqualityIdle
    /\ BuilderIdle
    /\ AuthIdle
    /\ WizardIdle
    /\ TaskIdle
    /\ ConstructIdle
    /\ CodecIdle
    /\ RaceIdle

NextQuery ==
    \/ \E value \in 1..MaxColour : CallFilterBy(value)
    \/ \E n \in 1..MaxWindow : CallLimit(n)
    \/ \E n \in 1..MaxWindow : CallOffset(n)
    \/ \E criterion \in {"ASC", "DESC"} : CallOrderBy(criterion)
    \/ \E state \in BOOLEAN : CallShowActiveOnly(state)
    \/ CallFirst
    \/ CallOne
    \/ CallCount
    \/ CallQueryExists
    \/ CallQueryAll
    \/ \E id \in 1..MaxTable : CallQueryGet(id)
    \/ CallQueryDelete
    \/ CallQueryArchive

SpecQuery == InitQuery /\ [][NextQuery]_vars

(***************************************************************************)
(* C10: Query.one() over a domain that matches exactly one row returns     *)
(* that row; over a domain matching no row it raises the 'no result'       *)
(* error; over a domain matching two or more rows it raises the 'multiple  *)
(* results' error, a different error; and the search it issues asks the    *)
(* server for at most 2 rows, starting from the first matching row.        *)
(***************************************************************************)
C10_OneRow ==
    result.op = "one" =>
        LET found == Matching(query.domain, [active_test |-> query.active_only],
                              query.order_by)
        IN  /\ Len(found) = 1 => result.outcome = Outcome("row", found, 0)
            /\ Len(found) = 0 => result.outcome.kind = "NoResultFound"
            /\ Len(found) >= 2 => result.outcome.kind = "MultipleResultsFound"
            /\ result.request.limit # None
            /\ result.request.limit # None => result.request.limit[1] <= 2
            /\ result.request.offset \in {None, Some(0)}

(***************************************************************************)
(* Query's builder methods over list objects (model.py).  Query.domain is  *)
(* a Python list: two Query objects can hold the same list, and            *)
(* list.append changes it for both.  heap[a] is the list at address a.     *)
(***************************************************************************)
\* Query objects built from one base
MaxBuilders == 4

Predicates == {<<"colour", "=", value>> : value \in 1..MaxColour}

\* Query.__init__: self.domain = [] is a new list
Builder_init(h) ==
    [heap |-> Append(h, <<>>),
     q |-> [domain |-> Len(h) + 1, limit |-> None, offset |-> None,
            order_by |-> None, active_only |-> TRUE]]

\* a copy that would share the receiver's list
Builder_copy_Alias(h, self) == [heap |-> h, q |-> self]

\* Query.__copy__: "newone.domain = self.domain[:]" is a new list
Builder_copy(h, self) ==
    [heap |-> Append(h, h[self.domain]),
     q |-> [domain |-> Len(h) + 1, limit |-> self.limit,
            offset |-> self.offset, order_by |-> self.order_by,
            active_only |-> self.active_only]]

\* Query.filter_by with one keyword: query.domain.append((field, '=', value))
Builder_filter_by(h, self, predicate) ==
    LET c == Builder_copy(h, self)
    IN  [heap |-> [c.heap EXCEPT ![c.q.domain] = Append(@, predicate)],
         q |-> c.q]

\* Query.filter_by_domain: "query.domain = domain", the caller's list
Builder_filter_by_domain(h, self, address) ==
    LET c == Builder_copy(h, self)
    IN  [heap |-> c.heap, q |-> [c.q EXCEPT !.domain = address]]

Builder_limit(h, self, limit) ==
    LET c == Builder_copy(h, self)
    IN  [heap |-> c.heap, q |-> [c.q EXCEPT !.limit = Some(limit)]]

Builder_offset(h, self, offset) ==
    LET c == Builder_copy(h, self)
    IN  [heap |-> c.heap, q |-> [c.q EXCEPT !.offset = Some(offset)]]

Builder_order_by(h, self, criterion) ==
    LET c == Builder_copy(h, self)
    IN  [heap |-> c.heap, q |-> [c.q EXCEPT !.order_by = Some(criterion)]]

Builder_show_active_only(h, self, state) ==
    LET c == Builder_copy(h, self)
    IN  [heap |-> c.heap, q |-> [c.q EXCEPT !.active_only = state]]

Derived(how, parent, arg) == [how |-> how, parent |-> parent, arg |-> arg]

\* new = builders[i].method(arg)
Returned(made, how, i, arg) ==
    /\ Len(builders) < MaxBuilders
    /\ heap' = made.heap
    /\ builders' = Append(builders, made.q)
    /\ derived' = Append(derived, Derived(how, i, arg))
    /\ UNCHANGED notBuilder

BuildFilterBy(i, predicate) ==
    Returned(Builder_filter_by(heap, builders[i], predicate),
             "filter_by", i, <<predicate>>)

\* the caller passes a list of its own making
BuildFilterByDomain(i, domain) ==
    LET h == Append(heap, domain)
    IN  Returned(Builder_filter_by_domain(h, builders[i], Len(h)),
                 "filter_by_domain", i, domain)

\* the caller passes the domain attribute of a Query it holds
BuildFilterByDomainOf(i, j) ==
    Returned(Builder_filter_by_domain(heap, builders[i], builders[j].domain),
             "filter_by_domain", i, heap[builders[j].domain])

BuildLimit(i, n) ==
    Returned(Builder_limit(heap, builders[i], n), "limit", i, <<n>>)

BuildOffset(i, n) ==
    Returned(Builder_offset(heap, builders[i], n), "offset", i, <<n>>)

BuildOrderBy(i, criterion) ==
    Returned(Builder_order_by(heap, builders[i], criterion),
             "order_by", i, <<criterion>>)

BuildShowActiveOnly(i, state) ==
    Returned(Builder_show_active_only(heap, builders[i], state),
             "show_active_only", i, <<state>>)

InitBuilder ==
    /\ heap = Builder_init(<<>>).heap
    /\ builders = <<Builder_init(<<>>).q>>
    /\ derived = <<Derived("Query", 0, <<>>)>>
    /\ PagingIdle
    /\ ResponseIdle
    /\ ContextIdle
    /\ TrackingIdle
    /\ RecordIdle
    /\ EqualityIdle
    /\ QueryIdle
    /\ AuthIdle
    /\ WizardIdle
    /\ TaskIdle
    /\ ConstructIdle
    /\ CodecIdle
    /\ RaceIdle

NextBuilder ==
    \/ \E i \in DOMAIN builders, predicate \in Predicates :
           BuildFilterBy(i, predicate)
    \/ \E i \in DOMAIN builders, predicate \in Predicates :
           BuildFilterByDomain(i, <<predicate>>)
    \/ \E i, j \in DOMAIN builders : BuildFilterByDomainOf(i, j)
    \/ \E i \in DOMAIN builders : BuildLimit(i, MaxWindow)
    \/ \E i \in DOMAIN builders : BuildOffset(i, MaxWindow)
    \/ \E i \in DOMAIN builders : BuildOrderBy(i, "DESC")
    \/ \E i \in DOMAIN builders : BuildShowActiveOnly(i, FALSE)

SpecBuilder == InitBuilder /\ [][NextBuilder]_vars

\* what a Query object holds, its domain read through the heap
View(h, q) ==
    [domain |-> h[q.domain], limit |-> q.limit, offset |-> q.offset,
     order_by |-> q.order_by, active_only |-> q.active_only]

\* the receiver's state with the one field the call names changed
C11_Expected(d) ==
    LET parent == View(heap, builders[d.parent])
    IN  CASE d.how = "filter_by" ->
                 [parent EXCEPT !.domain = Append(@, d.arg[1])]
          [] d.how = "filter_by_domain" -> [parent EXCEPT !.domain = d.arg]
          [] d.how = "limit" -> [parent EXCEPT !.limit = d.arg]
          [] d.how = "offset" -> [parent EXCEPT !.offset = d.arg]
          [] d.how = "order_by" -> [parent EXCEPT !.order_by = d.arg]
          [] d.how = "show_active_only" ->
                 [parent EXCEPT !.active_only = d.arg[1]]

(***************************************************************************)
(* C11: each of filter_by, filter_by_domain, limit, offset, order_by and   *)
(* show_active_only returns a new Query and leaves the receiver's domain,  *)
(* ordering, limit, offset and active-only flag as they were; after any    *)
(* sequence of such calls every derived Query is its receiver with the one *)
(* requested field changed, two Query objects derived from the same base   *)
(* by different filter_by calls do not contain each other's predicate, and *)
(* appending to a derived Query never changes the domain of the Query it   *)
(* was derived from.                                                       *)
(***************************************************************************)
C11_CopyOnWrite ==
    /\ [](\A i \in DOMAIN builders :
             /\ derived[i].parent # 0 =>
                    View(heap, builders[i]) = C11_Expected(derived[i])
             /\ \A j \in DOMAIN builders :
                    (/\ derived[i].how = "filter_by"
                     /\ derived[j].how = "filter_by"
                     /\ derived[i].parent = derived[j].parent
                     /\ derived[i].arg # derived[j].arg
                     /\ derived[j].arg[1] \notin
                            Range(heap[builders[derived[i].parent].domain]))
                    => derived[j].arg[1] \notin Range(heap[builders[i].domain]))
    /\ [][/\ Len(builders') = Len(builders) + 1
          /\ \A i \in DOMAIN builders :
                 View(heap', builders'[i]) = View(heap, builders[i])]_vars

\* two Query objects filtered differently from one base, and a third built
\* by appending to one of them
C11_Witness ==
    \E i, j, k \in DOMAIN builders :
        /\ derived[i].how = "filter_by"
        /\ derived[j].how = "filter_by"
        /\ derived[i].parent = derived[j].parent
        /\ derived[i].arg # derived[j].arg
        /\ derived[k].how = "filter_by"
        /\ derived[k].parent = i

(***************************************************************************)
(* Client.set_auth and Client.login (client.py).  An auth object is its    *)
(* class's type_ and its credential; no auth is the type_ "None".          *)
(***************************************************************************)
\* distinct credentials of each kind
MaxCred == 2

NoAuth == [type_ |-> "None", login |-> 0, credential |-> 0]

APIKeyAuth(api_key) ==
    [type_ |-> "APIKey", login |-> 0, credential |-> api_key]

BearerAuth(access_token) ==
    [type_ |-> "BearerAuth", login |-> 0, credential |-> access_token]

\* SessionAuth(login, user_id, session); the pair (user_id, session) is one
\* credential the server hands out
SessionAuth(login, user_session) ==
    [type_ |-> "Session", login |-> login, credential |-> user_session]

Auths ==
    {APIKeyAuth(k) : k \in 1..MaxCred} \cup {BearerAuth(k) : k \in 1..MaxCred}
        \cup {NoAuth}

\* Client.set_auth
set_auth(self, auth) ==
    IF auth = NoAuth THEN [self EXCEPT !.auth = auth]
    ELSE IF auth.type_ = "BearerAuth"
    THEN [self EXCEPT !.auth = auth, !.base_url = "/api/v2"]
    ELSE [self EXCEPT !.auth = auth]

\* Client.__init__(subdomain, api_key, auth=auth), a context given
Client_init(auth) ==
    set_auth([base_url |-> "/api/v1", auth |-> NoAuth], auth)

HttpRequest(kind, url, auth) == [kind |-> kind, url |-> url, auth |-> auth]

NoRequest == HttpRequest("none", "", NoAuth)

CallSetAuth(auth) ==
    /\ client' = set_auth(client, auth)
    /\ UNCHANGED <<requested, notAuth>>

\* Client.login: posts to self.host, then set_auth(SessionAuth(login, *rv))
CallLogin(login, flag, user_session) ==
    /\ requested' = HttpRequest("login", "", client.auth)
    /\ client' = IF flag THEN set_auth(client, SessionAuth(login, user_session))
                 ELSE client
    /\ UNCHANGED notAuth

\* a call through a Model proxy: session.put(self.path, ...) where path is
\* '%s/model/%s' % (self.client.base_url, self.model_name)
CallModel ==
    /\ requested' = HttpRequest("model", client.base_url, client.auth)
    /\ UNCHANGED <<client, notAuth>>

InitAuth ==
    /\ \E auth \in Auths : client = Client_init(auth)
    /\ requested = NoRequest
    /\ PagingIdle
    /\ ResponseIdle
    /\ ContextIdle
    /\ TrackingIdle
    /\ RecordIdle
    /\ EqualityIdle
    /\ QueryIdle
    /\ BuilderIdle
    /\ WizardIdle
    /\ TaskIdle
    /\ ConstructIdle
    /\ CodecIdle
    /\ RaceIdle

NextAuth ==
    \/ \E auth \in Auths : CallSetAuth(auth)
    \/ \E login \in 1..MaxCred, flag \in BOOLEAN, user_session \in 1..MaxCred :
           CallLogin(login, flag, user_session)
    \/ CallModel

SpecAuth == InitAuth /\ [][NextAuth]_vars

(***************************************************************************)
(* C12: after any sequence of set_auth and login(set_auth=True) calls, a   *)
(* request is sent to /api/v2 exactly when the auth installed at that time *)
(* is the bearer-token one, and to /api/v1 when it is the API-key one, the *)
(* session one, or none.                                                   *)
(***************************************************************************)
C12_VersionFollowsAuth ==
    requested.kind = "model" =>
        requested.url = IF requested.auth.type_ = "BearerAuth"
                        THEN "/api/v2" ELSE "/api/v1"

(***************************************************************************)
(* Wizard and WizardSession (client.py).                                   *)
(*     with wizard.session(...) as session: body                          *)
(* Wizard.session is a generator under @contextmanager:                    *)
(*     _session = WizardSession(self, context)                             *)
(*     yield _session                                                      *)
(*     _session.delete()                                                   *)
(***************************************************************************)
\* session ids the server hands out
MaxSession == 2
\* execute requests of one session, the one of its construction included
MaxExecutes == 2
\* default values a view carries
MaxDefault == 2

WizStates == {"start", "ask", "end"}

ClientContexts == {c \in Contexts : DOMAIN c \subseteq {"language"}}

SessionContexts == {c \in Contexts : \A k \in DOMAIN c : c[k] = "a"}

CallContexts ==
    {None} \cup {Some(c) : c \in {d \in Contexts : \A k \in DOMAIN d : d[k] = "b"}}

NoDefaults == [k \in {} |-> 0]

WizDefaults == {NoDefaults} \cup {[k \in {"name"} |-> v] : v \in 1..MaxDefault}

NoData == [k \in {} |-> NoDefaults]

Reply(kind, view_state, defaults) ==
    [kind |-> kind, view_state |-> view_state, defaults |-> defaults]

\* what json_response makes of the server's answer to execute: a result
\* with a view, a result without one, or a raised error
ExecuteReplies ==
    {Reply("view", st, d) : st \in {"start", "ask"}, d \in WizDefaults}
        \cup {Reply("final", "", NoDefaults), Reply("error", "", NoDefaults)}

NoReply == Reply("none", "", NoDefaults)

\* self.data[key] of a defaultdict(dict)
DataGet(data, key) == IF key \in DOMAIN data THEN data[key] ELSE NoDefaults

WizRequest(call, session_id, data, state, ctx) ==
    [call |-> call, session_id |-> session_id, data |-> data, state |-> state,
     context |-> ctx]

\* the context a Wizard method transmits: "ctx = self.client.context.copy();
\* ctx.update(context or {})"
Wizard_context_Bare(default, ctx) == ctx

Wizard_context(default, ctx) == DictUpdate(default, ctx)

\* Wizard.create
Wizard_create(ctx) == WizRequest("create", 0, NoData, "", Wizard_context(wclient, ctx))

\* Wizard.execute
Wizard_execute(session_id, data, state, ctx) ==
    WizRequest("execute", session_id, data, state, Wizard_context(wclient, ctx))

\* Wizard.delete: no context is transmitted
Wizard_delete(session_id) == WizRequest("delete", session_id, NoData, "", EmptyDict)

\* WizardSession.__init__ up to "self.state = None"
WizardSession_init(ctx, session_id) ==
    [session_id |-> session_id, start_state |-> "start", end_state |-> "end",
     data |-> NoData, state |-> "None", context |-> ctx]

\* WizardSession.parse_result
parse_result(self, reply) ==
    IF reply.kind = "view"
    THEN [self EXCEPT !.data =
             [k \in DOMAIN self.data \cup {reply.view_state} |->
                 IF k = reply.view_state
                 THEN DictUpdate(DataGet(self.data, k), reply.defaults)
                 ELSE self.data[k]]]
    ELSE [self EXCEPT !.state = self.end_state]

Executed(what, before, state, percall, reply, ret) ==
    [op |-> what, before |-> before, state |-> state, percall |-> percall,
     reply |-> reply, ret |-> ret]

NotExecuted(what, ret) ==
    Executed(what, WizardSession_init(EmptyDict, 0), "", None, NoReply, ret)

\* WizardSession.execute: at most one request is sent, for a reply with a
\* view returns at once and a reply without one ends the loop; with state
\* the end state the loop is not entered and "return result" reads a local
\* that was never bound
WizardSession_execute(what, self, state, percall, reply) ==
    LET ctx == IF percall = None THEN self.context
               ELSE DictUpdate(self.context, percall[1])
        entered == [self EXCEPT !.state = state]
        request == Wizard_execute(self.session_id, self.data, state, ctx)
    IN  IF state = self.end_state
        THEN [session |-> entered, sent |-> <<>>,
              result |-> Executed(what, self, state, percall, NoReply,
                                  "UnboundLocalError")]
        ELSE IF reply.kind = "error"
        THEN [session |-> entered, sent |-> <<request>>,
              result |-> Executed(what, self, state, percall, reply, "error")]
        ELSE [session |-> parse_result(entered, reply), sent |-> <<request>>,
              result |-> Executed(what, self, state, percall, reply, "result")]

Scope(phase, created, raised) ==
    [phase |-> phase, created |-> created, raised |-> raised]

\* "with wizard.session(...) as session": WizardSession.__init__, the
\* create call failing
EnterCreateFails(ctx) ==
    /\ wscope.phase = "new"
    /\ wcalls' = <<Wizard_create(ctx)>>
    /\ wscope' = Scope("exited", FALSE, TRUE)
    /\ wresult' = NotExecuted("create", "error")
    /\ UNCHANGED <<wclient, wsession, notWizard>>

\* WizardSession.__init__ with the create call answered: the first execute
\* follows; an error from it leaves the with-statement before its body
Enter(ctx, session_id, reply) ==
    LET made == WizardSession_init(ctx, session_id)
        e == WizardSession_execute("init", made, made.start_state, None, reply)
    IN  /\ wscope.phase = "new"
        /\ wcalls' = <<Wizard_create(ctx)>> \o e.sent
        /\ wsession' = e.session
        /\ wresult' = e.result
        /\ wscope' = IF e.result.ret = "result" THEN Scope("body", TRUE, FALSE)
                     ELSE Scope("exited", TRUE, TRUE)
        /\ UNCHANGED <<wclient, notWizard>>

\* session.execute(state, context) in the body
BodyExecute(state, percall, reply) ==
    LET e == WizardSession_execute("execute", wsession, state, percall, reply)
    IN  /\ wscope.phase = "body"
        /\ NumCalls(wcalls, "execute") < MaxExecutes
        /\ wcalls' = wcalls \o e.sent
        /\ wsession' = e.session
        /\ wresult' = e.result
        /\ UNCHANGED <<wclient, wscope, notWizard>>

\* the body raises: the error of an execute it did not catch, or one of its
\* own; the generator is resumed by throw() at its yield, which no try
\* statement encloses
BodyRaises ==
    /\ wscope.phase = "body"
    /\ wscope' = Scope("exited", TRUE, TRUE)
    /\ wresult' = NotExecuted("raise", "error")
    /\ UNCHANGED <<wclient, wsession, wcalls, notWizard>>

\* the body ends: the generator is resumed after its yield
BodyEnds(ret) ==
    /\ wscope.phase = "body"
    /\ wcalls' = Append(wcalls, Wizard_delete(wsession.session_id))
    /\ wscope' = Scope("exited", TRUE, ret = "error")
    /\ wresult' = NotExecuted("delete", ret)
    /\ UNCHANGED <<wclient, wsession, notWizard>>

InitWizard ==
    /\ wclient \in ClientContexts
    /\ wsession = WizardSession_init(EmptyDict, 0)
    /\ wscope = Scope("new", FALSE, FALSE)
    /\ wcalls = <<>>
    /\ wresult = NotExecuted("none", "none")
    /\ PagingIdle
    /\ ResponseIdle
    /\ ContextIdle
    /\ TrackingIdle
    /\ RecordIdle
    /\ EqualityIdle
    /\ QueryIdle
    /\ BuilderIdle
    /\ AuthIdle
    /\ TaskIdle
    /\ ConstructIdle
    /\ CodecIdle
    /\ RaceIdle

NextWizard ==
    \/ \E ctx \in SessionContexts : EnterCreateFails(ctx)
    \/ \E ctx \in SessionContexts, session_id \in 1..MaxSession,
          reply \in ExecuteReplies : Enter(ctx, session_id, reply)
    \/ \E state \in WizStates, percall \in CallContexts,
          reply \in ExecuteReplies : BodyExecute(state, percall, reply)
    \/ BodyRaises
    \/ \E ret \in {"result", "error"} : BodyEnds(ret)

SpecWizard == InitWizard /\ [][NextWizard]_vars

(***************************************************************************)
(* C13: a wizard session opened through Wizard.session(...) has its        *)
(* server-side session released on every exit path: once the create call   *)
(* has succeeded, exactly one delete call for that session id is issued by *)
(* the time the with-statement is left, whether the body finishes          *)
(* normally, the body raises, or the first execute of the construction     *)
(* fails.                                                                  *)
(***************************************************************************)
C13_SessionReleased ==
    (wscope.phase = "exited" /\ wscope.created) =>
        Cardinality({i \in DOMAIN wcalls :
                        /\ wcalls[i].call = "delete"
                        /\ wcalls[i].session_id = wsession.session_id}) = 1

\* the session context with the per-call context laid over it
C20_Overlaid(self, percall) ==
    IF percall = None THEN self.context ELSE DictUpdate(self.context, percall[1])

\* the last execute, when it sent a request that transmitted context ctx
C20_Transition(ctx) ==
    LET before == wresult.before
        reply == wresult.reply
    IN  /\ wcalls[Len(wcalls)] =
               WizRequest("execute", before.session_id, before.data,
                          wresult.state, ctx)
        /\ reply.kind = "view" =>
               /\ wsession.data[reply.view_state] =
                      DictUpdate(DataGet(before.data, reply.view_state),
                                 reply.defaults)
               /\ \A k \in DOMAIN wsession.data \ {reply.view_state} :
                      k \in DOMAIN before.data /\ wsession.data[k] = before.data[k]
               /\ wresult.ret = "result"
               /\ wsession.state # wsession.end_state
        /\ reply.kind = "final" =>
               /\ wsession.state = wsession.end_state
               /\ wsession.data = before.data
               /\ wresult.ret = "result"
        /\ wresult.op = "init" =>
               /\ Len(wcalls) = 2
               /\ wcalls[1].call = "create"
               /\ wresult.state = wsession.start_state
               /\ before.data = NoData

C20_Sent == wresult.op \in {"init", "execute"} /\ wresult.reply # NoReply

(***************************************************************************)
(* C20: creating a session performs the create call and then the first     *)
(* execute into the server-assigned start state; on each execute, a result *)
(* with a view updates the session's data for the view's state with the    *)
(* view's defaults, is returned, and leaves the session off the end state; *)
(* a result without a view puts the session in the end state and is        *)
(* returned.  Every execute request posts the session id, the data         *)
(* accumulated so far, the state, and the session context overlaid with    *)
(* the per-call context.                                                   *)
(***************************************************************************)
C20_Transitions ==
    C20_Sent => C20_Transition(C20_Overlaid(wresult.before, wresult.percall))

(***************************************************************************)
(* C20 as amended: the same, except that the context an execute request    *)
(* posts is the client's default context, overlaid with the session        *)
(* context, overlaid with the per-call context.                            *)
(***************************************************************************)
C20_TransitionsMerged ==
    C20_Sent =>
        C20_Transition(DictUpdate(wclient,
                           C20_Overlaid(wresult.before, wresult.percall)))

\* an execute in the body that posted accumulated data under a client
\* default, a session context and a per-call context, answered with a view
C20_Witness ==
    /\ wresult.op = "execute"
    /\ wresult.reply.kind = "view"
    /\ wresult.before.data # NoData
    /\ wclient # EmptyDict
    /\ wresult.before.context # EmptyDict
    /\ wresult.percall # None
    /\ wsession.data # wresult.before.data

(***************************************************************************)
(* AsyncResult (client.py).  The server's answer to _fetch_result is the   *)
(* one entry of its 'tasks' list: it may carry an error, and it may carry  *)
(* a state with a result.                                                  *)
(***************************************************************************)
\* polls of one task
MaxPolls == 3
\* results and error messages the server reports
MaxOutput == 2

TaskStates == {"PENDING", "STARTED", "FAILURE", "SUCCESS", "RETRY"}

\* AsyncResult.__init__(task_id, token, client)
AsyncResult(bound) == [bound |-> bound, state |-> "PENDING", result |-> 0]

Response(has_error, error, has_state, state, value) ==
    [has_error |-> has_error, error |-> error, has_state |-> has_state,
     state |-> state, result |-> value]

Responses_tasks ==
    {Response(FALSE, 0, FALSE, "PENDING", 0)}
        \cup {Response(TRUE, e, FALSE, "PENDING", 0) : e \in 1..MaxOutput}
        \cup {Response(FALSE, 0, TRUE, st, r) :
                  st \in TaskStates, r \in 0..MaxOutput}
        \cup {Response(TRUE, e, TRUE, "FAILURE", 0) : e \in 1..MaxOutput}

TaskOutcome(what, polled, raised, message, value) ==
    [op |-> what, polled |-> polled, raised |-> raised, message |-> message,
     value |-> value]

\* ServerError.__init__(self, message, code, sentry_id=None) called with
\* the message alone: the call itself fails, code being a required argument
ServerError_new(message) == "TypeError"

\* "self.state == self.FAILURE": a comparison, whose value is dropped
MarkFailure(self) == self

\* a refresh that asks the server whatever the state of the handle
refresh_if_needed_Always(self, response) ==
    IF response.has_state
    THEN [task |-> [self EXCEPT !.state = response.state,
                                !.result = response.result],
          polled |-> TRUE, raised |-> "none", message |-> 0]
    ELSE [task |-> self, polled |-> TRUE, raised |-> "none", message |-> 0]

\* AsyncResult.refresh_if_needed
refresh_if_needed(self, response) ==
    IF self.state \notin {"PENDING", "STARTED"}
    THEN [task |-> self, polled |-> FALSE, raised |-> "none", message |-> 0]
    ELSE IF ~self.bound
    THEN [task |-> self, polled |-> FALSE, raised |-> "Exception",
          message |-> 0]
    ELSE IF response.has_error
    THEN [task |-> MarkFailure(self), polled |-> TRUE,
          raised |-> ServerError_new(response.error),
          message |-> response.error]
    ELSE IF response.has_state
    THEN [task |-> [self EXCEPT !.state = response.state,
                                !.result = response.result],
          polled |-> TRUE, raised |-> "none", message |-> 0]
    ELSE [task |-> self, polled |-> TRUE, raised |-> "none", message |-> 0]

\* a call that refreshes first and then returns self.state == wanted
TaskCall(what, wanted, response) ==
    LET r == refresh_if_needed(task, response)
    IN  /\ task' = r.task
        /\ polls' = IF r.polled THEN polls + 1 ELSE polls
        /\ tret' = TaskOutcome(what, r.polled, r.raised, r.message,
                               IF r.raised # "none" THEN "none"
                               ELSE IF wanted = "" THEN "None"
                               ELSE IF r.task.state = wanted THEN "True"
                               ELSE "False")
        /\ UNCHANGED notTask

\* the server answers only when asked: by a bound handle in PENDING or STARTED
Answered(response) ==
    IF task.state \in {"PENDING", "STARTED"} /\ task.bound
    THEN polls < MaxPolls
    ELSE response = Response(FALSE, 0, FALSE, "PENDING", 0)

CallRefreshIfNeeded(response) ==
    Answered(response) /\ TaskCall("refresh_if_needed", "", response)

CallFailed(response) == Answered(response) /\ TaskCall("failed", "FAILURE", response)

CallReady(response) == Answered(response) /\ TaskCall("ready", "SUCCESS", response)

\* AsyncResult.bind
CallBind ==
    /\ ~task.bound
    /\ task' = [task EXCEPT !.bound = TRUE]
    /\ tret' = TaskOutcome("bind", FALSE, "none", 0, "self")
    /\ UNCHANGED <<polls, notTask>>

InitTask ==
    /\ \E bound \in BOOLEAN : task = AsyncResult(bound)
    /\ polls = 0
    /\ tret = TaskOutcome("none", FALSE, "none", 0, "none")
    /\ PagingIdle
    /\ ResponseIdle
    /\ ContextIdle
    /\ TrackingIdle
    /\ RecordIdle
    /\ EqualityIdle
    /\ QueryIdle
    /\ BuilderIdle
    /\ AuthIdle
    /\ WizardIdle
    /\ ConstructIdle
    /\ CodecIdle
    /\ RaceIdle

NextTask ==
    \/ \E response \in Responses_tasks : CallRefreshIfNeeded(response)
    \/ \E response \in Responses_tasks : CallFailed(response)
    \/ \E response \in Responses_tasks : CallReady(response)
    \/ CallBind

SpecTask == InitTask /\ [][NextTask]_vars

(***************************************************************************)
(* C14: when a task handle in state PENDING or STARTED is refreshed and    *)
(* the server's response for the task carries an error field, the handle's *)
(* state becomes FAILURE and a ServerError carrying that error is raised   *)
(* to the caller; a later failed() then returns True without polling       *)
(* again.                                                                  *)
(***************************************************************************)
C14_ErrorFails ==
    [][/\ (/\ task.state \in {"PENDING", "STARTED"}
           /\ tret'.polled
           /\ tret'.message # 0)
          => (/\ task'.state = "FAILURE"
              /\ tret'.raised = "ServerError")
       /\ (/\ tret.polled
           /\ tret.message # 0
           /\ tret'.op = "failed")
          => (~tret'.polled /\ tret'.value = "True")
      ]_vars

(***************************************************************************)
(* Model.from_cache_multi (model.py).  ids is a list of distinct ids; the  *)
(* server answers the bulk read with the rows that exist in id order, or   *)
(* refuses it when one of the ids has no row.                              *)
(***************************************************************************)
IdLists ==
    {ids \in UNION {[1..n -> RecIds] : n \in 0..MaxRecId} :
        \A i, j \in DOMAIN ids : i # j => ids[i] # ids[j]}

\* ids.index(id)
Index(ids, id) == CHOOSE i \in DOMAIN ids : ids[i] = id

\* list.insert before the first element whose key is larger
RECURSIVE InsertByKey(_, _, _)
InsertByKey(sorted, r, ids) ==
    IF sorted = <<>> THEN <<r>>
    ELSE IF Index(ids, Model_id(r).v) < Index(ids, Model_id(sorted[1]).v)
    THEN <<r>> \o sorted
    ELSE <<sorted[1]>> \o InsertByKey(Tail(sorted), r, ids)

\* the results as they were appended: hits first, then the rows read
SortedByIndex_Appended(results, ids) == results

\* sorted(results, key=lambda r: ids.index(r.id))
RECURSIVE SortedByIndex(_, _)
SortedByIndex(results, ids) ==
    IF results = <<>> THEN <<>>
    ELSE InsertByKey(SortedByIndex(Tail(results), ids), results[1], ids)

\* "for id, cached_value in zip(ids, cached_values)": the hits, in order
RECURSIVE CachedRecords(_, _)
CachedRecords(st, ids) ==
    IF ids = <<>> THEN <<>>
    ELSE LET key == get_cache_key(IntV(ids[1]))
             others == CachedRecords(st, Tail(ids))
         IN  IF key \in DOMAIN st.cache
             THEN <<Model_init(loads(st.cache[key]), IntV(ids[1]))>> \o others
             ELSE others

\* and the misses, in order
Misses(st, ids) ==
    SelectSeq(ids, LAMBDA id : get_cache_key(IntV(id)) \notin DOMAIN st.cache)

\* cls.rpc.read(misses, tuple(cls._fields)): the rows, in id order
RECURSIVE ReadRows(_, _, _)
ReadRows(st, misses, n) ==
    IF n > MaxRecId THEN <<>>
    ELSE IF n \in Range(misses) /\ n \in DOMAIN st.server
    THEN <<ServerRow(st, n, Fields)>> \o ReadRows(st, misses, n + 1)
    ELSE ReadRows(st, misses, n + 1)

\* "for row in rows: record = cls(id=row['id'], values=row);
\*  record.store_in_cache(); results.append(record)"
RECURSIVE StoreRows(_, _, _)
StoreRows(st, fetched, results) ==
    IF fetched = <<>> THEN [st |-> st, results |-> results]
    ELSE LET record == Model_init(fetched[1], fetched[1]["id"])
             stored == Model_store_in_cache([st EXCEPT !.values = record])
         IN  StoreRows(stored, Tail(fetched), Append(results, record))

\* cls.cache_backend.mget(map(cls.get_cache_key, ids)) and the loop over its
\* answer; no try statement encloses the call
mget(st, ids, fails) ==
    LET s1 == Log(st, Event("cache.mget", NoneV, EmptyValues, {}))
    IN  IF fails
        THEN [st |-> [s1 EXCEPT !.raised = TRUE], results |-> <<>>,
              misses |-> <<>>]
        ELSE [st |-> s1, results |-> CachedRecords(st, ids),
              misses |-> Misses(st, ids)]

\* Model.from_cache_multi
Model_from_cache_multi(st, ids, ignore_misses, fails, refuses) ==
    IF ids = <<>> THEN [st |-> st, results |-> <<>>, misses |-> <<>>]
    ELSE LET looked == IF ~cache_backend
                       THEN [st |-> st, results |-> <<>>, misses |-> ids]
                       ELSE mget(st, ids, fails)
             misses == looked.misses
         IN  IF looked.st.raised \/ misses = <<>> \/ ignore_misses
             THEN looked
             ELSE LET s2 == Log(looked.st,
                                Event("read", NoneV, EmptyValues, Fields))
                      fetched == ReadRows(s2, misses, 1)
                  IN  IF Len(fetched) < Len(misses) /\ refuses
                      THEN [st |-> [s2 EXCEPT !.raised = TRUE],
                            results |-> <<>>, misses |-> misses]
                      ELSE LET done == StoreRows(s2, fetched, looked.results)
                           IN  [st |-> done.st,
                                results |-> SortedByIndex(done.results, ids),
                                misses |-> misses]

Multi(ids, ignore_misses, fails, misses, results) ==
    [ids |-> ids, ignore_misses |-> ignore_misses, fails |-> fails,
     misses |-> misses, results |-> results]

CallFromCacheMulti(ids, ignore_misses, fails, refuses) ==
    LET r == Model_from_cache_multi(Begin(rec), ids, ignore_misses, fails,
                                    refuses)
    IN  /\ cache' = r.st.cache
        /\ calls' = r.st.calls
        /\ op' = [name |-> "from_cache_multi", arg |-> NoneV,
                  status |-> IF r.st.raised THEN "raised" ELSE "ok"]
        /\ multi' = Multi(ids, ignore_misses, fails, r.misses,
                          IF r.st.raised THEN <<>> ELSE r.results)
        /\ UNCHANGED <<server, cache_backend, rec, notRecord>>

InitMulti ==
    /\ server \in UNION {[S -> Amounts] : S \in SUBSET RecIds}
    /\ cache = [k \in {} |-> EmptyValues]
    /\ cache_backend \in BOOLEAN
    /\ rec = Model_init(EmptyValues, NoneV)
    /\ calls = <<>>
    /\ op = [name |-> "new", arg |-> NoneV, status |-> "ok"]
    /\ multi = Multi(<<>>, FALSE, FALSE, <<>>, <<>>)
    /\ PagingIdle
    /\ ResponseIdle
    /\ ContextIdle
    /\ TrackingIdle
    /\ EqualityIdle
    /\ QueryIdle
    /\ BuilderIdle
    /\ AuthIdle
    /\ WizardIdle
    /\ TaskIdle
    /\ ConstructIdle
    /\ CodecIdle
    /\ RaceIdle

NextMulti ==
    \/ \E ids \in IdLists, ignore_misses \in BOOLEAN, fails \in BOOLEAN,
          refuses \in BOOLEAN :
           /\ fails => cache_backend /\ ids # <<>>
           /\ CallFromCacheMulti(ids, ignore_misses, fails, refuses)
    \/ \E key \in DOMAIN cache : CacheExpire(key)

SpecMulti == InitMulti /\ [][NextMulti]_vars

C15_Hit(id) == cache_backend /\ get_cache_key(IntV(id)) \in DOMAIN cache

\* the records from_cache_multi is to return, in the order of ids
C15_Expected(ids, ignore_misses) ==
    LET answered ==
            SelectSeq(ids, LAMBDA id :
                \/ C15_Hit(id)
                \/ ~ignore_misses /\ id \in DOMAIN server)
    IN  [i \in DOMAIN answered |->
            IF C15_Hit(answered[i])
            THEN DictSetItem(loads(cache[get_cache_key(IntV(answered[i]))]),
                             "id", IntV(answered[i]))
            ELSE ServerRow([server |-> server], answered[i], Fields)]

(***************************************************************************)
(* C15: from_cache_multi(ids, ignore_misses) over distinct ids returns     *)
(* records ordered as their ids are in ids: one for every id found in the  *)
(* cache and, ignore_misses being false, one for every missed id the one   *)
(* bulk read returns, each of which is also written to the cache; with     *)
(* ignore_misses true no remote read is issued and only the cached ids are *)
(* returned; when every id is a hit no remote read is issued; an empty id  *)
(* list returns an empty list with no cache or remote access.              *)
(***************************************************************************)
C15_FromCacheMulti ==
    [][(op'.name = "from_cache_multi" /\ op'.status = "ok") =>
          LET ids == multi'.ids
              results == multi'.results
              expected == C15_Expected(ids, multi'.ignore_misses)
          IN  /\ Len(results) = Len(expected)
              /\ \A i \in DOMAIN results : results[i].data = expected[i]
              /\ \A i \in DOMAIN ids :
                     (/\ cache_backend
                      /\ ~C15_Hit(ids[i])
                      /\ ~multi'.ignore_misses
                      /\ ids[i] \in DOMAIN server)
                     => LET key == get_cache_key(IntV(ids[i]))
                        IN  /\ key \in DOMAIN cache'
                            /\ loads(cache'[key]) =
                                   ServerRow([server |-> server], ids[i], Fields)
              /\ NumCalls(calls', "read") <= 1
              /\ (multi'.ignore_misses \/ \A i \in DOMAIN ids : C15_Hit(ids[i]))
                     => NumCalls(calls', "read") = 0
              /\ ids = <<>> => calls' = <<>> /\ results = <<>>
      ]_vars

\* a call over two ids, the second in the list cached and the first read
\* from the server
C15_Witness ==
    /\ op.name = "from_cache_multi"
    /\ op.status = "ok"
    /\ Len(multi.ids) = 2
    /\ multi.ids[1] > multi.ids[2]
    /\ multi.misses = <<multi.ids[1]>>
    /\ Len(multi.results) = 2
    /\ NumCalls(calls, "read") = 1
    /\ NumCalls(calls, "cache.set") = 1

(***************************************************************************)
(* C16: when the cache backend fails during the lookup of from_cache_multi *)
(* the failure is taken for a miss of the requested ids: the call does not *)
(* fail, the records are fetched by the remote read and the caller         *)
(* receives them.                                                          *)
(***************************************************************************)
C16_CacheFailureIsMiss ==
    (op.name = "from_cache_multi" /\ multi.fails /\ ~multi.ignore_misses
     /\ \A i \in DOMAIN multi.ids : multi.ids[i] \in DOMAIN server) =>
        /\ op.status = "ok"
        /\ NumCalls(calls, "read") = 1
        /\ Len(multi.results) = Len(multi.ids)

C18_Refresh ==
    [][op'.name = "refresh" =>
          LET id == Model_id(rec)
              reads == {i \in DOMAIN calls' : calls'[i].call = "read"}
              deletes == {i \in DOMAIN calls' : calls'[i].call = "cache.delete"}
          IN  IF Truthy(id)
              THEN /\ Cardinality(reads) = 1
                   /\ \A i \in reads :
                          /\ calls'[i].id = id
                          /\ calls'[i].fields = Fields
                          /\ calls'[i].fields # EagerFields
                   /\ cache_backend =>
                          /\ Cardinality(deletes) = 1
                          /\ \A i \in deletes, j \in reads :
                                 i < j /\ calls'[i].id = id
                          /\ get_cache_key(id) \notin DOMAIN cache'
                   /\ op'.status = "ok" =>
                          /\ rec'.data = ServerRow([server |-> server], id.v,
                                                   Fields)
                          /\ rec'.changes = {}
              ELSE /\ op'.status = "raised"
                   /\ reads = {}
                   /\ rec' = rec
      ]_vars

\* a refresh of a saved record under a cache backend: the entry deleted,
\* then the row read with the lazily loaded field too
C18_Witness ==
    /\ op.name = "refresh"
    /\ op.status = "ok"
    /\ cache_backend
    /\ Len(calls) = 2
    /\ calls[1].call = "cache.delete"
    /\ calls[2].call = "read"
    /\ "cost" \in calls[2].fields
    /\ rec.changes = {}

(***************************************************************************)
(* C19: save() on a record without an id issues exactly one create call    *)
(* carrying the full current value container and no write call, adopts the *)
(* id the server returns, and then refreshes; after every successful       *)
(* save(), on either path, the record has an id, its dirty set is empty    *)
(* and its values are those the refresh read returned.                     *)
(***************************************************************************)
C19_SaveCreates ==
    [][op'.name = "save" =>
          LET creates == {i \in DOMAIN calls' : calls'[i].call = "create"}
              reads == {i \in DOMAIN calls' : calls'[i].call = "read"}
              created == DOMAIN server' \ DOMAIN server
          IN  /\ ~Truthy(Model_id(rec)) =>
                     /\ Cardinality(creates) = 1
                     /\ \A i \in creates : calls'[i].payload = rec.data
                     /\ NumCalls(calls', "write") = 0
                     /\ Cardinality(created) = 1
                     /\ op'.status = "ok" =>
                            /\ Model_id(rec').v \in created
                            /\ \A i \in creates : \E j \in reads : i < j
              /\ op'.status = "ok" =>
                     /\ Truthy(Model_id(rec'))
                     /\ rec'.changes = {}
                     /\ Cardinality(reads) = 1
                     /\ \A j \in reads :
                            /\ j = Len(calls')
                            /\ calls'[j].id = Model_id(rec')
                     /\ rec'.data = ServerRow([server |-> server'],
                                              Model_id(rec').v, Fields)
      ]_vars

\* a save that created the row from the values given to the constructor
C19_Witness ==
    /\ op.name = "save"
    /\ op.status = "ok"
    /\ NumCalls(calls, "create") = 1
    /\ NumCalls(calls, "write") = 0
    /\ NumCalls(calls, "read") = 1
    /\ \E i \in DOMAIN calls :
          calls[i].call = "create" /\ "amount" \in DOMAIN calls[i].payload
    /\ Truthy(Model_id(rec))

(***************************************************************************)
(* C21: a task handle starts in PENDING and asks the server only while its *)
(* state is PENDING or STARTED; once the state is SUCCESS or FAILURE no    *)
(* call of refresh_if_needed, ready or failed issues a request and state   *)
(* and result stay as they are; a response that carries a state and no     *)
(* error is adopted, state and result; ready() returns True exactly when   *)
(* the state after the refresh is SUCCESS, failed() exactly when it is     *)
(* FAILURE.                                                                *)
(***************************************************************************)
C21_Adopts(response) ==
    (/\ \/ CallRefreshIfNeeded(response)
        \/ CallFailed(response)
        \/ CallReady(response)
     /\ tret'.polled
     /\ ~response.has_error
     /\ response.has_state)
        => (/\ task'.state = response.state
            /\ task'.result = response.result)

C22_Context ==
    [][/\ result'.op \in {"all", "first", "one", "count", "exists", "delete",
                          "archive"}
            => result'.request.context = [active_test |-> query.active_only]
       /\ result'.op = "get"
            => (/\ result'.request.context = [active_test |-> FALSE]
                /\ Len(result'.request.domain) = 1
                /\ result'.request.domain[1][1] = "id"
                /\ result'.request.domain[1][2] = "="
                /\ result'.outcome.kind = "row"
                      => result'.outcome.rows[1].id
                             = result'.request.domain[1][3]
                /\ result'.outcome.kind = "row"
                      <=> result'.request.domain[1][3] \in Range(Ids(table))
                /\ query' = query)
      ]_vars

\* get(3) under an active-only builder filtered on a colour row 3 has not
\* reaches the archived row 3
C22_Witness ==
    /\ result.op = "get"
    /\ query.active_only
    /\ Len(query.domain) > 0
    /\ result.outcome.kind = "row"
    /\ ~result.outcome.rows[1].active
    /\ \E i \in 1..Len(query.domain) :
          ~Holds(result.outcome.rows[1], query.domain[i])

(***************************************************************************)
(* C30: Query.delete() and Query.archive() act on exactly the ids one      *)
(* search of the builder's domain under its active-only context returns,   *)
(* a search sent without limit, offset or ordering: the builder's limit,   *)
(* offset and order_by do not change which rows are deleted or archived,   *)
(* so these can be more than the rows all() yields; when the search finds  *)
(* no id, no delete or write request is sent.                              *)
(***************************************************************************)
C30_Found ==
    Ids(Matching(query.domain, [active_test |-> query.active_only], None))

C30_AllMatching ==
    [][result'.op \in {"delete", "archive"}
          => (/\ result'.request
                    = Request("search", query.domain, None, None, None,
                              [active_test |-> query.active_only])
              /\ C30_Found = <<>>
                    => (result'.outcome.kind = "None" /\ table' = table)
              /\ (C30_Found # <<>> /\ result'.op = "delete")
                    => (/\ result'.outcome = Outcome("delete", C30_Found, 0)
                        /\ table' = Deleted(C30_Found))
              /\ (C30_Found # <<>> /\ result'.op = "archive")
                    => (/\ result'.outcome = Outcome("write", C30_Found, 0)
                        /\ table' = Archived(C30_Found)))
      ]_vars

\* a builder limited to one row has deleted more than one
C30_Witness ==
    /\ result.op = "delete"
    /\ query.limit = Some(1)
    /\ query.offset = Some(1)
    /\ result.outcome.kind = "delete"
    /\ Len(result.outcome.rows) >= 2

(***************************************************************************)
(* C23: the session's default context is left as it was by every remote    *)
(* call that passes a per-call context (generic proxy call, get, find,     *)
(* wizard create and execute, report execute) and by every operation of a  *)
(* query builder; over any sequence of operations it changes only on       *)
(* refresh_context() (and at construction); the per-call mapping the       *)
(* caller passed is not modified either.                                   *)
(***************************************************************************)
C23_DefaultKept ==
    [][/\ sent'.method # "get_preferences"
            => (/\ context' = context
                /\ passed' = sent'.percall)
       /\ context' # context => sent'.method = "get_preferences"
      ]_vars

\* a wizard execute whose per-call context overrides a key of the default
C23_Witness ==
    /\ sent.method = "wizard_execute"
    /\ sent.percall # None
    /\ passed = sent.percall
    /\ \E k \in DOMAIN context :
          /\ k \in DOMAIN passed[1]
          /\ passed[1][k] # context[k]
          /\ sent.ctx[k] = passed[1][k]

(***************************************************************************)
(* Client.__init__ (client.py): the auth it installs, the context it       *)
(* starts with, and the refresh_context() it runs when it is given         *)
(* credentials and no context.                                             *)
(***************************************************************************)
\* "if not context and self.session.auth"
NeedsRefresh_Falsy(ctx, auth) ==
    (ctx = None \/ ctx[1] = EmptyDict) /\ auth # NoAuth

\* "if context is None and self.session.auth": an auth object is truthy
NeedsRefresh(ctx, auth) == ctx = None /\ auth # NoAuth

\* "if api_key is not None: self.set_auth(APIKeyAuth(api_key)) else:
\* self.set_auth(auth)"
Client_auth(api_key, auth) ==
    set_auth([base_url |-> "/api/v1", auth |-> NoAuth],
             IF api_key # None THEN APIKeyAuth(api_key[1]) ELSE auth)

CtorArgs(api_key, ctx, auth, response, requests) ==
    [api_key |-> api_key, context |-> ctx, auth |-> auth,
     response |-> response, requests |-> requests]

Made(kind, self, ctx, error) ==
    [kind |-> kind, client |-> self, context |-> ctx, error |-> error]

\* the answer of a server that is not asked
Unasked ==
    [status_code |-> 200, body |-> NoBody, content_type |-> "application/json",
     sentry_id |-> "absent"]

\* Client.__init__(subdomain, api_key, context, auth); response is what the
\* server answers to User.get_preferences(True) if it is asked
Client_new(api_key, ctx, auth, response) ==
    LET self == Client_auth(api_key, auth)
        given == DictUpdate(EmptyDict, Or(ctx, EmptyDict))
        request == HttpRequest("get_preferences", self.base_url, self.auth)
        answer == json_response(response)
    IN  IF ~NeedsRefresh(ctx, self.auth)
        THEN [requests |-> <<>>,
              built |-> Made("client", self, <<"given", given>>, NoOutcome)]
        ELSE IF answer.kind = "return"
        THEN [requests |-> <<request>>,
              built |-> Made("client", self, <<"preferences", answer.value>>,
                            NoOutcome)]
        ELSE [requests |-> <<request>>,
              built |-> Made("raised", self, <<"none", EmptyDict>>, answer)]

NotMade == Made("none", [base_url |-> "", auth |-> NoAuth],
                <<"none", EmptyDict>>, NoOutcome)

Construct(api_key, ctx, auth, response) ==
    LET r == Client_new(api_key, ctx, auth, response)
    IN  /\ built = NotMade
        /\ r.requests = <<>> => response = Unasked
        /\ ctor' = CtorArgs(api_key, ctx, auth, response, r.requests)
        /\ built' = r.built
        /\ UNCHANGED notConstruct

InitConstruct ==
    /\ ctor = CtorArgs(None, None, NoAuth, Unasked, <<>>)
    /\ built = NotMade
    /\ PagingIdle
    /\ ResponseIdle
    /\ ContextIdle
    /\ TrackingIdle
    /\ RecordIdle
    /\ EqualityIdle
    /\ QueryIdle
    /\ BuilderIdle
    /\ AuthIdle
    /\ WizardIdle
    /\ TaskIdle
    /\ CodecIdle
    /\ RaceIdle

NextConstruct ==
    \E api_key \in {None} \cup {Some(k) : k \in 1..MaxCred},
       ctx \in OptContexts, auth \in Auths,
       response \in Responses \cup {Unasked} :
        Construct(api_key, ctx, auth, response)

SpecConstruct == InitConstruct /\ [][NextConstruct]_vars

(***************************************************************************)
(* C24: constructing a Client with credentials and no explicit context     *)
(* makes one context-refresh remote call during construction; when the     *)
(* server answers it with status 401 or 403 the construction fails with an *)
(* error that is a ClientError and no Client is returned; constructing     *)
(* with an explicit context, or without credentials, sends no request.     *)
(***************************************************************************)
C24_Credentials == ctor.api_key # None \/ ctor.auth # NoAuth

C24_Construct ==
    built # NotMade =>
        /\ (C24_Credentials /\ ctor.context = None) =>
              /\ Len(ctor.requests) = 1
              /\ ctor.requests[1].kind = "get_preferences"
              /\ ctor.requests[1].auth # NoAuth
              /\ ctor.response.status_code \in {401, 403} =>
                    /\ built.kind = "raised"
                    /\ "ClientError" \in Bases(built.error.kind)
              /\ ctor.response.status_code = 200 => built.kind = "client"
        /\ (ctor.context # None \/ ~C24_Credentials) =>
              /\ ctor.requests = <<>>
              /\ built.kind = "client"
              /\ built.context = <<"given", Or(ctor.context, EmptyDict)>>

\* an API key the server refuses with 403
C24_Witness ==
    /\ ctor.api_key # None
    /\ ctor.context = None
    /\ ctor.response.status_code = 403
    /\ built.kind = "raised"
    /\ built.error.kind = "ClientError"
    /\ Len(ctor.requests) = 1

(***************************************************************************)
(* serialization.py: the encoders JSONEncoder registers by type, the       *)
(* decoders JSONDecoder registers by tag, and what json and isodate do     *)
(* with the values in between.                                             *)
(*                                                                         *)
(* A Python value is [type, v].  A JSON object is a function from its keys *)
(* to its members; a JSON array is a sequence.  An ISO string is kept as   *)
(* the sequence of the numbers it spells.                                  *)
(***************************************************************************)
\* microseconds of a time other than 0
MaxMicro == 500000
\* longest byte string, largest record id
MaxBytes == 2

Py(type, v) == [type |-> type, v |-> v]

Decimals == {Py("Decimal", <<c, e>>) : c \in {-15, 0, 15}, e \in {-1, 0, 2}}

Dates == {Py("date", <<y, m, d>>) : y \in {1999, 2024}, m \in {1, 12}, d \in {1, 28}}

Times ==
    {Py("time", <<h, mi, sec, us>>) :
        h \in {0, 23}, mi \in {0, 59}, sec \in {0, 59}, us \in {0, MaxMicro}}

Datetimes ==
    {Py("datetime", d.v \o t.v) : d \in {x \in Dates : x.v[2] = 12},
                                  t \in {x \in Times : x.v[2] = 59}}

\* timedelta keeps days, seconds and microseconds, the last two not negative
Timedeltas ==
    {Py("timedelta", <<d, sec, us>>) :
        d \in {-1, 0, 1}, sec \in {0, 3661}, us \in {0, MaxMicro}}

Bytes == UNION {[1..n -> {0, 255}] : n \in 0..MaxBytes}

Binaries == {Py("bytes", b) : b \in Bytes}

\* serialization.dummy_record: namedtuple('Record', model_name, id, rec_name)
dummy_record(model_name, id, rec_name) ==
    Py("Record", <<model_name, id, rec_name>>)

Records ==
    {dummy_record(m, i, n) : m \in {"party.party", "product.product"},
                             i \in 1..MaxBytes, n \in {"None", "Ada"}}

Values ==
    Decimals \cup Dates \cup Times \cup Datetimes \cup Timedeltas
        \cup Binaries \cup Records

\* str(Decimal) and Decimal(str): sign, digits and exponent are spelled out
Decimal_str(v) == <<IF v[1] < 0 THEN "-" ELSE "", IF v[1] < 0 THEN -v[1] ELSE v[1], v[2]>>

Decimal_new(text) == <<IF text[1] = "-" THEN -text[2] ELSE text[2], text[3]>>

\* time.isoformat() leaves the fraction out when microsecond is 0
time_isoformat(v) == IF v[4] = 0 THEN <<v[1], v[2], v[3]>> ELSE v

\* isodate.parse_time: a missing fraction is 0 microseconds
parse_time(text) == IF Len(text) = 3 THEN text \o <<0>> ELSE text

\* datetime.isoformat(): the date, "T", the time
datetime_isoformat(v) == <<v[1], v[2], v[3], "T">> \o time_isoformat(SubSeq(v, 4, 7))

\* isodate.parse_datetime: splits at "T", parse_date and parse_time
parse_datetime(text) ==
    <<text[1], text[2], text[3]>> \o parse_time(SubSeq(text, 5, Len(text)))

\* isodate.duration_isoformat: "-" if negative, then P, days, T, hours,
\* minutes, seconds and fraction of the absolute value, by divmod; the
\* absolute value is computed here in whole seconds and microseconds apart
duration_isoformat(v) ==
    LET whole == v[1] * 86400 + v[2]
        neg == whole < 0
        secs == IF ~neg THEN whole ELSE IF v[3] > 0 THEN -whole - 1 ELSE -whole
        frac == IF neg /\ v[3] > 0 THEN 1000000 - v[3] ELSE v[3]
        mins == secs \div 60
        hours == mins \div 60
    IN  <<IF neg THEN "-" ELSE "", hours \div 24, hours % 24, mins % 60,
          secs % 60, frac>>

\* isodate.parse_duration: timedelta(days, hours, minutes, seconds), negated
\* under "-"; timedelta normalises to days, seconds, microseconds
parse_duration(text) ==
    LET a == ((text[2] * 24 + text[3]) * 60 + text[4]) * 60 + text[5]
        neg == text[1] = "-"
        whole == IF ~neg THEN a ELSE IF text[6] > 0 THEN -a - 1 ELSE -a
        us == IF neg /\ text[6] > 0 THEN 1000000 - text[6] ELSE text[6]
        days == IF whole >= 0 THEN whole \div 86400
                ELSE -((-whole + 86399) \div 86400)
    IN  <<days, whole - days * 86400, us>>

\* base64.encodestring: the base64 text of the bytes with a newline after it;
\* base64.decodestring skips the newline
b64encode(b) == <<"base64", b, "\n">>

b64decode(text) == text[2]

Dict1(k, v) == [x \in {k} |-> v]

Tagged(tag, key, member) == Dict1("__class__", tag) @@ Dict1(key, member)

\* the encoders registered with JSONEncoder.register, by type(obj)
serializers(o) ==
    CASE o.type = "datetime" -> Tagged("datetime", "iso_string", datetime_isoformat(o.v))
      [] o.type = "date" -> Tagged("date", "iso_string", o.v)
      [] o.type = "time" -> Tagged("time", "iso_string", time_isoformat(o.v))
      [] o.type = "timedelta" ->
            Tagged("timedelta", "iso_string", duration_isoformat(o.v))
      [] o.type = "bytes" -> Tagged("bytes", "base64", b64encode(o.v))
      [] o.type = "Decimal" -> Tagged("Decimal", "decimal", Decimal_str(o.v))

Registered == {"datetime", "date", "time", "timedelta", "bytes", "Decimal"}

Json(kind, doc) == [kind |-> kind, doc |-> doc]

Raised(error) == Json("raised", error)

\* dumps = partial(json.dumps, cls=JSONEncoder).  json turns a tuple, a
\* namedtuple too, into an array without asking default(); simplejson turns
\* a namedtuple into an object of its fields; default() is asked for the
\* other types and looks type(obj) up in serializers
Codec_dumps(b, o) ==
    IF o.type = "Record"
    THEN IF b.json = "simplejson"
         THEN Json("object", Dict1("model_name", o.v[1]) @@ Dict1("id", o.v[2])
                                 @@ Dict1("rec_name", o.v[3]))
         ELSE Json("array", o.v)
    ELSE IF o.type = "bytes" /\ ~b.encodestring
    THEN Raised("AttributeError")
    ELSE IF o.type \in Registered THEN Json("object", serializers(o))
    ELSE Raised("TypeError")

\* dct.get(key)
Get(dct, key) == IF key \in DOMAIN dct THEN dct[key] ELSE "None"

Decoders == Registered \cup {"Model", "AsyncResult"}

\* the decoders registered with register_decoder and JSONDecoder.register;
\* the objects decoded here carry an iso_string
decoders(tag, dct) ==
    CASE tag = "datetime" -> Py("datetime", parse_datetime(dct["iso_string"]))
      [] tag = "date" -> Py("date", dct["iso_string"])
      [] tag = "time" -> Py("time", parse_time(dct["iso_string"]))
      [] tag = "timedelta" -> Py("timedelta", parse_duration(dct["iso_string"]))
      [] tag = "bytes" -> Py("bytes", b64decode(dct["base64"]))
      [] tag = "Decimal" -> Py("Decimal", Decimal_new(dct["decimal"]))
      [] tag = "Model" ->
            dummy_record(dct["model_name"], dct["id"], Get(dct, "rec_name"))
      [] tag = "AsyncResult" ->
            Py("AsyncResult", <<dct["task_id"], dct["token"], "None">>)

\* JSONDecoder.__call__: "if dct.get('__class__') in self.decoders"
JSONDecoder_hook(dct) ==
    IF Get(dct, "__class__") \in Decoders
    THEN decoders(dct["__class__"], dct)
    ELSE Py("dict", dct)

\* loads = partial(json.loads, object_hook=JSONDecoder()): the hook is
\* called for objects only; an array becomes a list
Codec_loads(text) ==
    IF text.kind = "object" THEN JSONDecoder_hook(text.doc)
    ELSE Py("list", text.doc)

NoValue == Py("none", <<>>)

NoJson == Json("none", <<>>)

\* objects a server sends that no decoder is registered for
PlainObjects ==
    {Json("object", Dict1("code", "USD")),
     Json("object", Tagged("Currency", "code", "USD")),
     Json("object", Tagged("Currency", "iso_string", <<2024, 12, 28>>)),
     Json("object", Tagged("None", "decimal", <<"", 15, 0>>))}

\* objects a server sends for a record reference and for a task
ServerObjects ==
    {Json("object", Tagged("Model", "model_name", "party.party")
                        @@ Dict1("id", i) @@ Dict1("rec_name", "Ada")) :
         i \in 1..MaxBytes}
        \cup {Json("object", Tagged("Model", "model_name", "party.party")
                                 @@ Dict1("id", 1)),
              Json("object", Tagged("AsyncResult", "task_id", "t1")
                                 @@ Dict1("token", "k1"))}

Builds == [json : {"json", "simplejson"}, encodestring : BOOLEAN]

CallDumps ==
    /\ obj # NoValue
    /\ wire = NoJson
    /\ wire' = Codec_dumps(build, obj)
    /\ UNCHANGED <<build, obj, decoded, notCodec>>

CallLoads ==
    /\ wire \notin {NoJson} \cup {Raised(e) : e \in {"TypeError", "AttributeError"}}
    /\ decoded = NoValue
    /\ decoded' = Codec_loads(wire)
    /\ UNCHANGED <<build, obj, wire, notCodec>>

InitCodec ==
    /\ build \in Builds
    /\ \/ obj \in Values /\ wire = NoJson
       \/ obj = NoValue /\ wire \in PlainObjects \cup ServerObjects
    /\ decoded = NoValue
    /\ PagingIdle
    /\ ResponseIdle
    /\ ContextIdle
    /\ TrackingIdle
    /\ RecordIdle
    /\ EqualityIdle
    /\ QueryIdle
    /\ BuilderIdle
    /\ AuthIdle
    /\ WizardIdle
    /\ TaskIdle
    /\ ConstructIdle
    /\ RaceIdle

NextCodec == CallDumps \/ CallLoads

SpecCodec == InitCodec /\ [][NextCodec]_vars

(***************************************************************************)
(* C25: codec round trip: for every value x of each kind the codec names   *)
(* (decimal, date, time, datetime, duration, binary, record reference),    *)
(* decoding the encoding of x yields a value equal to x; a decoded object  *)
(* whose tag is absent or not registered is returned unchanged, as a plain *)
(* mapping.                                                                *)
(***************************************************************************)
C25_RoundTrip ==
    /\ (obj # NoValue /\ wire # NoJson)
          => (wire.kind # "raised" /\ (decoded # NoValue => decoded = obj))
    /\ (obj = NoValue /\ decoded # NoValue
           /\ Get(wire.doc, "__class__") \notin Decoders)
          => decoded = Py("dict", wire.doc)

(***************************************************************************)
(* C26: has_changed is True exactly when the record's dirty set, the keys  *)
(* changes reports, is not empty: False for a record just fetched or just  *)
(* refreshed and after a successful save(), True after a field has been    *)
(* assigned a value different from the one it had.                         *)
(***************************************************************************)
C26_HasChanged ==
    /\ Model_has_changed(rec) <=> DOMAIN Model_changes(rec) # {}
    /\ (op.name \in {"get_by_id", "from_cache", "refresh", "save"}
           /\ op.status = "ok")
          => ~Model_has_changed(rec)

(***************************************************************************)
(* C27: RETRY is a transient state of a task handle: a handle that took    *)
(* the state RETRY from a poll still asks the server on later ready(),     *)
(* failed() and refresh_if_needed() calls, and takes the state the server  *)
(* then reports, so that it reaches SUCCESS or FAILURE once the server     *)
(* reports it.                                                             *)
(***************************************************************************)
C27_RetryPolls ==
    [][(/\ task.state = "RETRY"
        /\ task.bound
        /\ tret'.op \in {"ready", "failed", "refresh_if_needed"})
          => tret'.polled
      ]_vars

(***************************************************************************)
(* C28: for every state argument, the session's end state included, and    *)
(* every server response, a call of WizardSession.execute that meets no    *)
(* transport error ends by returning a result to the caller, having sent   *)
(* at most one execute request: the loop body never runs twice in a call.  *)
(***************************************************************************)
C28_ExecuteReturns ==
    [][(wresult'.op \in {"init", "execute"} /\ wresult'.ret # "error")
          => (/\ wresult'.ret = "result"
              /\ NumCalls(wcalls', "execute")
                     <= NumCalls(wcalls, "execute") + 1)
      ]_vars

(***************************************************************************)
(* Two processes on one row (model.py): one in Model.from_cache(id), one   *)
(* in save() of a changed amount.  They share the server and the cache     *)
(* backend; each remote call and each cache call is one step.              *)
(***************************************************************************)
Process(pc, values) == [pc |-> pc, values |-> values]

RowValues(n) == [f \in {"amount"} |-> DecV(n)]

\* from_cache: "cached_value = cls.cache_backend and cls.cache_backend.get(key)"
ReaderGet ==
    /\ reader.pc = "get"
    /\ reader' = IF centry # None THEN Process("done", loads(centry[1]))
                 ELSE Process("delete", EmptyValues)
    /\ UNCHANGED <<srv, centry, writer, notRace>>

\* record.refresh(): self.invalidate_cache()
ReaderDelete ==
    /\ reader.pc = "delete"
    /\ centry' = None
    /\ reader' = Process("read", reader.values)
    /\ UNCHANGED <<srv, writer, notRace>>

\* record.refresh(): self._values = ModificationTrackingDict(self.rpc.read(...))
ReaderRead ==
    /\ reader.pc = "read"
    /\ reader' = Process("set", RowValues(srv))
    /\ UNCHANGED <<srv, centry, writer, notRace>>

\* record.store_in_cache(): cache_backend.set(key, dumps(self._values), ...)
ReaderSet ==
    /\ reader.pc = "set"
    /\ centry' = Some(dumps(reader.values))
    /\ reader' = Process("done", reader.values)
    /\ UNCHANGED <<srv, writer, notRace>>

\* save(): self.rpc.write([self.id], self.changes)
WriterWrite ==
    /\ writer.pc = "write"
    /\ srv' = writer.values.amount.v
    /\ writer' = Process("delete", writer.values)
    /\ UNCHANGED <<centry, reader, notRace>>

\* save(): self.refresh(): self.invalidate_cache()
WriterDelete ==
    /\ writer.pc = "delete"
    /\ centry' = None
    /\ writer' = Process("read", writer.values)
    /\ UNCHANGED <<srv, reader, notRace>>

\* save(): self.refresh(): the read; nothing is stored in the cache
WriterRead ==
    /\ writer.pc = "read"
    /\ writer' = Process("done", RowValues(srv))
    /\ UNCHANGED <<srv, centry, reader, notRace>>

\* the backend drops the entry: its cache_expire has passed
EntryExpires ==
    /\ centry # None
    /\ centry' = None
    /\ UNCHANGED <<srv, reader, writer, notRace>>

\* the cache holds no entry for the row; the writer holds the row with its
\* amount changed
InitRace ==
    /\ srv \in Amounts
    /\ centry = None
    /\ reader = Process("get", EmptyValues)
    /\ \E n \in 1..(MaxAmount + 1) :
          n # srv /\ writer = Process("write", RowValues(n))
    /\ PagingIdle
    /\ ResponseIdle
    /\ ContextIdle
    /\ TrackingIdle
    /\ RecordIdle
    /\ EqualityIdle
    /\ QueryIdle
    /\ BuilderIdle
    /\ AuthIdle
    /\ WizardIdle
    /\ TaskIdle
    /\ ConstructIdle
    /\ CodecIdle

NextRace ==
    \/ ReaderGet
    \/ ReaderDelete
    \/ ReaderRead
    \/ ReaderSet
    \/ WriterWrite
    \/ WriterDelete
    \/ WriterRead
    \/ EntryExpires

SpecRace == InitRace /\ [][NextRace]_vars

(***************************************************************************)
(* C29: cache coherence under interleaving: with one process in            *)
(* from_cache(id) on a miss and another in save() of a changed field of    *)
(* the same record, in every interleaving of their remote reads, remote    *)
(* write, cache delete and cache set, the entry the cache holds for the id *)
(* once both have finished, if any, holds the values the server has after  *)
(* the save, never the values from before it.                              *)
(***************************************************************************)
C29_Coherent ==
    (reader.pc = "done" /\ writer.pc = "done" /\ centry # None)
        => loads(centry[1]) = RowValues(srv)

====
